---- MODULE Spec2Model ----
(***************************************************************************)
(* A model of the BusTub storage substrate: the disk extendible hash       *)
(* table, the buffer pool manager with its LRU-K replacer, the page        *)
(* guards, the copy-on-write trie, the trie store, the disk scheduler and  *)
(* the query executors.                                                    *)
(*                                                                         *)
(* Each subsystem has its own specification (SpecHT, SpecBP, ...) over a   *)
(* shared set of variables; a specification leaves the variables of the    *)
(* other subsystems at their idle values.                                  *)
(***************************************************************************)
EXTENDS Integers, Sequences, FiniteSets, Bags, TLC

VARIABLES
  htHeader,    \* header page: directory_page_ids_[0 .. 2^header_max_depth - 1]
  htDirs,      \* directory pages, by page id
  htBuckets,   \* bucket pages, by page id
  htNextPage,  \* BufferPoolManager::next_page_id_ as seen by the hash table
  htFreed,     \* page ids on which DeletePage succeeded
  htBucketMax, \* bucket_max_size_
  htExpect,    \* history: key -> value of every insert that returned true (minus removes)
  htLast,      \* history: the last operation, its arguments and its result
  htOps,       \* history: number of operations performed
  htInsertOnly, \* history: every operation so far was an insert that returned true
  htRound,     \* history: the keys inserted, and those of them no Remove was called on yet
  htThreads,   \* the threads calling the hash table at once: position and locals of each call
  bpm,         \* BufferPoolManager: pages_, page_table_, free_list_, next_page_id_, replacer_, disk
  bpHist,      \* history of the buffer pool's clients: last written contents, last operation
  trie,        \* a Trie value in use: root_, and the allocator's next node and value object
  trHist,      \* history of the trie's client: the last call, its arguments and its result
  store,       \* TrieStore: root_, and the owners of root_lock_ and write_lock_
  tsHeap,      \* the value objects made by TrieStore::Put and the allocator's counters
  tsThreads,   \* the threads calling the TrieStore: position and locals of the call
  tsGuards,    \* the ValueGuards the callers hold
  tsHist,      \* history: the write calls that have returned, number of calls made
  pgLatch,     \* Page::rwlatch_ of every frame: number of readers, writer present
  pgGuards,    \* the page guard objects of the callers, and the fetches waiting for a latch
  pgHist,      \* history: releases of something not owned, drop paths taken
  sched,       \* DiskScheduler: request_queue_, the worker thread, the owner, the promises
  dsHist,      \* history of the scheduler and the DiskManager: calls made, in order
  lru,         \* an LRUKReplacer driven directly through its public interface
  lruHist,     \* history of the replacer's caller: the last call and its result
  exec,        \* a query plan's executors, with the table heap or the child rows they read
  exHist       \* history of the plan's caller: the calls made and what they returned

htVars == <<htHeader, htDirs, htBuckets, htNextPage, htFreed, htBucketMax, htExpect, htLast, htOps,
            htInsertOnly, htRound, htThreads>>

bpVars == <<bpm, bpHist>>

trVars == <<trie, trHist>>

tsVars == <<store, tsHeap, tsThreads, tsGuards, tsHist>>

pgVars == <<pgLatch, pgGuards, pgHist>>

dsVars == <<sched, dsHist>>

lruVars == <<lru, lruHist>>

exVars == <<exec, exHist>>

vars == <<htVars, bpVars, trVars, tsVars, pgVars, dsVars, lruVars, exVars>>

\* The state of a subsystem that a specification of another subsystem leaves
\* unconstructed.
HTIdle ==
  /\ htHeader = <<>> /\ htDirs = <<>> /\ htBuckets = <<>> /\ htNextPage = 0 /\ htFreed = {}
  /\ htBucketMax = 0 /\ htExpect = <<>> /\ htLast = <<>> /\ htOps = 0 /\ htInsertOnly = TRUE
  /\ htRound = <<>>
  /\ htThreads = <<>>

BPIdle == bpm = <<>> /\ bpHist = <<>>

TRIdle == trie = <<>> /\ trHist = <<>>

PGIdle == pgLatch = <<>> /\ pgGuards = <<>> /\ pgHist = <<>>

DSIdle == sched = <<>> /\ dsHist = <<>>

LRUIdle == lru = <<>> /\ lruHist = <<>>

EXIdle == exec = <<>> /\ exHist = <<>>

TSIdle ==
  store = <<>> /\ tsHeap = <<>> /\ tsThreads = <<>> /\ tsGuards = <<>> /\ tsHist = <<>>

(***************************************************************************)
(* Arithmetic helpers                                                      *)
(***************************************************************************)
RECURSIVE Pow2(_)
Pow2(n) == IF n <= 0 THEN 1 ELSE 2 * Pow2(n - 1)

\* The & of two 32-bit unsigned values.
RECURSIVE BitAnd(_, _)
BitAnd(a, b) ==
  IF a = 0 \/ b = 0 THEN 0
  ELSE (IF a % 2 = 1 /\ b % 2 = 1 THEN 1 ELSE 0) + 2 * BitAnd(a \div 2, b \div 2)

\* The ^ of two 32-bit unsigned values.
RECURSIVE BitXor(_, _)
BitXor(a, b) ==
  IF a = 0 THEN b
  ELSE IF b = 0 THEN a
  ELSE (IF a % 2 # b % 2 THEN 1 ELSE 0) + 2 * BitXor(a \div 2, b \div 2)

(***************************************************************************)
(* Extendible hash table: parameters                                       *)
(***************************************************************************)
INVALID_PAGE_ID == -1

\* Constructor arguments header_max_depth, directory_max_depth.
HeaderMaxDepth == 0
DirMaxDepth == 4
\* bucket_max_size is drawn from 1 .. MaxBucketSize when the table is built.
MaxBucketSize == 1
\* Operations per run.
MaxHTOps == 6

\* The keys offered to the table and the 32-bit hash the supplied hash
\* function gives each of them.
HTKeys == {0, 1, 4, 5, 9}
HTValues == {7}
\* hash_fn_ is supplied by the caller; the one used here sends a key to
\* its low five bits, so that 33 would collide with 1.
Hash(key) == key % 32

\* The directory's arrays. The code indexes them up to twice the active
\* size (bucket_index + h in Insert), so the model keeps 2^(max_depth+1) slots.
DirSlots == 0 .. (Pow2(DirMaxDepth + 1) - 1)

(***************************************************************************)
(* ExtendibleHTableHeaderPage                                              *)
(***************************************************************************)
HeaderMaxSize == Pow2(HeaderMaxDepth)

HeaderInit == [i \in 0 .. (HeaderMaxSize - 1) |-> INVALID_PAGE_ID]

HashToDirectoryIndex(hash) ==
  IF HeaderMaxDepth = 0 THEN 0 ELSE (hash \div Pow2(31 - HeaderMaxDepth)) \div 2

GetDirectoryPageId(header, directory_idx) ==
  IF directory_idx >= HeaderMaxSize THEN INVALID_PAGE_ID ELSE header[directory_idx]

SetDirectoryPageId(header, directory_idx, directory_page_id) ==
  IF directory_idx >= HeaderMaxSize THEN header
  ELSE [header EXCEPT ![directory_idx] = directory_page_id]

(***************************************************************************)
(* ExtendibleHTableDirectoryPage: a directory d is a record                *)
(* [global_depth, max_depth, local_depths, bucket_page_ids].               *)
(***************************************************************************)
\* Init on a freshly reset (zeroed) page: only the first 2^max_depth entries
\* of the arrays are filled.
DirInit(max_depth) ==
  [global_depth |-> 0,
   max_depth |-> max_depth,
   local_depths |-> [i \in DirSlots |-> 0],
   bucket_page_ids |-> [i \in DirSlots |-> IF i < Pow2(max_depth) THEN INVALID_PAGE_ID ELSE 0]]

GetGlobalDepthMask(d) == Pow2(d.global_depth) - 1

HashToBucketIndex(d, hash) == BitAnd(hash, GetGlobalDepthMask(d))

GetBucketPageId(d, bucket_idx) == d.bucket_page_ids[bucket_idx]

SetBucketPageId(d, bucket_idx, bucket_page_id) ==
  [d EXCEPT !.bucket_page_ids[bucket_idx] = bucket_page_id]

GetSplitImageIndex(d, bucket_idx) == bucket_idx + Pow2(d.global_depth - 1)

GetLocalDepth(d, bucket_idx) == d.local_depths[bucket_idx]

SetLocalDepth(d, bucket_idx, local_depth) ==
  [d EXCEPT !.local_depths[bucket_idx] = local_depth % 256]

DirSize(d) == Pow2(d.global_depth)

IncrGlobalDepth(d) ==
  IF d.global_depth >= d.max_depth THEN d
  ELSE LET n == Pow2(d.global_depth) IN
       [d EXCEPT
          !.bucket_page_ids = [i \in DirSlots |->
              IF i >= n /\ i < 2 * n THEN d.bucket_page_ids[i - n] ELSE d.bucket_page_ids[i]],
          !.local_depths = [i \in DirSlots |->
              IF i >= n /\ i < 2 * n THEN d.local_depths[i - n] ELSE d.local_depths[i]],
          !.global_depth = d.global_depth + 1]

DecrGlobalDepth(d) ==
  IF d.global_depth <= 0 THEN d ELSE [d EXCEPT !.global_depth = d.global_depth - 1]

CanShrink(d) ==
  /\ d.global_depth # 0
  /\ \A i \in 0 .. (DirSize(d) - 1) : d.local_depths[i] # d.global_depth

IncrLocalDepth(d, bucket_idx) ==
  IF d.local_depths[bucket_idx] < d.global_depth
  THEN [d EXCEPT !.local_depths[bucket_idx] = d.local_depths[bucket_idx] + 1]
  ELSE d

DecrLocalDepth(d, bucket_idx) ==
  IF d.local_depths[bucket_idx] > 0
  THEN [d EXCEPT !.local_depths[bucket_idx] = d.local_depths[bucket_idx] - 1]
  ELSE d

\* 1 << (local_depth - 1) on uint32_t: with local_depth = 0 the shift count
\* is 0xFFFFFFFF, which is undefined; ub is the value the build produces then.
GetLocalDepthMask(d, bucket_idx, ub) ==
  IF d.local_depths[bucket_idx] = 0 THEN ub
  ELSE Pow2(d.local_depths[bucket_idx] - 1)

\* What the undefined shift evaluates to: 0 where shift counts saturate, and
\* 1 << 31 where the count is taken modulo 32. Pow2(30) stands for the
\* latter: like it, it is a single bit above every bucket index.
UBShiftResults == {0, Pow2(30)}

(***************************************************************************)
(* ExtendibleHTableBucketPage: a bucket b is a record [max_size, entries], *)
(* entries the sequence array_[0 .. size_ - 1] of <<key, value>> pairs.    *)
(***************************************************************************)
BucketInit(max_size) == [max_size |-> max_size, entries |-> <<>>]

IsFull(b) == Len(b.entries) = b.max_size

IsEmpty(b) == Len(b.entries) = 0

\* <<found, value>>; the first matching entry wins.
Lookup(b, key) ==
  LET hits == {i \in 1 .. Len(b.entries) : b.entries[i][1] = key} IN
  IF hits = {} THEN <<FALSE, 0>>
  ELSE <<TRUE, b.entries[CHOOSE i \in hits : \A j \in hits : i <= j][2]>>

\* [b, ok]
BucketInsert(b, key, value) ==
  IF IsFull(b) THEN [b |-> b, ok |-> FALSE]
  ELSE IF \E i \in 1 .. Len(b.entries) : b.entries[i][1] = key THEN [b |-> b, ok |-> FALSE]
  ELSE [b |-> [b EXCEPT !.entries = Append(b.entries, <<key, value>>)], ok |-> TRUE]

\* [b, ok]
BucketRemove(b, key) ==
  LET hits == {i \in 1 .. Len(b.entries) : b.entries[i][1] = key} IN
  IF hits = {} THEN [b |-> b, ok |-> FALSE]
  ELSE LET i == CHOOSE x \in hits : \A y \in hits : x <= y IN
       [b |-> [b EXCEPT !.entries =
                 SubSeq(b.entries, 1, i - 1) \o SubSeq(b.entries, i + 1, Len(b.entries))],
        ok |-> TRUE]

Clear(b) == [b EXCEPT !.entries = <<>>]

(***************************************************************************)
(* DiskExtendibleHashTable. A table state s is a record                    *)
(* [header, dirs, buckets, next, freed, bucket_max_size]; the operations   *)
(* return the new state with their result. The buffer pool behind the      *)
(* table is large enough that NewPage and FetchPage never fail.            *)
(***************************************************************************)
\* GetValue: <<found, value>>
GetValue(s, key) ==
  LET hash == Hash(key)
      directory_page_id == GetDirectoryPageId(s.header, HashToDirectoryIndex(hash))
  IN
  IF directory_page_id = INVALID_PAGE_ID THEN <<FALSE, 0>>
  ELSE
    LET directory_page == s.dirs[directory_page_id]
        bucket_page_id == GetBucketPageId(directory_page, HashToBucketIndex(directory_page, hash))
    IN
    IF bucket_page_id = INVALID_PAGE_ID THEN <<FALSE, 0>>
    ELSE Lookup(s.buckets[bucket_page_id], key)

\* The redistribution loop of SplitBucket over entries[i ..]: an entry goes
\* back to the old bucket or to the split bucket, by the page its directory
\* slot names; an entry whose slot names neither is not re-inserted.
RECURSIVE Redistribute(_, _, _, _, _, _, _)
Redistribute(entries, i, directory, bucket_page_id, split_page_id, bucket, split_bucket) ==
  IF i > Len(entries) THEN [bucket |-> bucket, split_bucket |-> split_bucket]
  ELSE
    LET entry == entries[i]
        target_idx == HashToBucketIndex(directory, Hash(entry[1]))
        target_page_id == GetBucketPageId(directory, target_idx)
    IN
    IF target_page_id = bucket_page_id
    THEN Redistribute(entries, i + 1, directory, bucket_page_id, split_page_id,
                      BucketInsert(bucket, entry[1], entry[2]).b, split_bucket)
    ELSE IF target_page_id = split_page_id
    THEN Redistribute(entries, i + 1, directory, bucket_page_id, split_page_id,
                      bucket, BucketInsert(split_bucket, entry[1], entry[2]).b)
    ELSE Redistribute(entries, i + 1, directory, bucket_page_id, split_page_id,
                      bucket, split_bucket)

\* SplitBucket(directory, bucket, bucket_idx): [s, ok]. old_page_id is the
\* page the caller fetched as `bucket`.
SplitBucket(s, directory_page_id, old_page_id, bucket_idx) ==
  LET split_page_id == s.next
      directory == s.dirs[directory_page_id]
      split_idx == GetSplitImageIndex(directory, bucket_idx)
      local_depth == GetLocalDepth(directory, bucket_idx)
      d1 == SetLocalDepth(SetBucketPageId(directory, split_idx, split_page_id),
                          split_idx, local_depth)
      bucket_page_id == GetBucketPageId(d1, bucket_idx)
      s1 == [s EXCEPT !.next = s.next + 1,
                      !.dirs[directory_page_id] = d1,
                      !.buckets = s.buckets @@ (split_page_id :> BucketInit(s.bucket_max_size))]
  IN
  IF bucket_page_id = INVALID_PAGE_ID THEN [s |-> s1, ok |-> FALSE]
  ELSE
    LET entries == s1.buckets[old_page_id].entries
        r == Redistribute(entries, 1, d1, bucket_page_id, split_page_id,
                          Clear(s1.buckets[old_page_id]), s1.buckets[split_page_id])
    IN
    [s |-> [s1 EXCEPT !.buckets = [p \in DOMAIN s1.buckets |->
                        IF p = split_page_id THEN r.split_bucket
                        ELSE IF p = old_page_id THEN r.bucket
                        ELSE s1.buckets[p]]],
     ok |-> TRUE]

\* InsertToNewBucket: [s, ok]
InsertToNewBucket(s, directory_page_id, bucket_idx, key, value) ==
  LET bucket_page_id == s.next
      r == BucketInsert(BucketInit(s.bucket_max_size), key, value)
  IN
  [s |-> [s EXCEPT !.next = s.next + 1,
                   !.dirs[directory_page_id] =
                       SetBucketPageId(s.dirs[directory_page_id], bucket_idx, bucket_page_id),
                   !.buckets = s.buckets @@ (bucket_page_id :> r.b)],
   ok |-> r.ok]

\* InsertToNewDirectory: [s, ok]
InsertToNewDirectory(s, directory_idx, hash, key, value) ==
  LET directory_page_id == s.next
      directory_page == DirInit(DirMaxDepth)
      s1 == [s EXCEPT !.next = s.next + 1,
                      !.dirs = s.dirs @@ (directory_page_id :> directory_page),
                      !.header = SetDirectoryPageId(s.header, directory_idx, directory_page_id)]
  IN
  InsertToNewBucket(s1, directory_page_id, HashToBucketIndex(directory_page, hash), key, value)

\* The second copy of the doubled directory that Insert makes itself after
\* IncrGlobalDepth: slot i - h into slot i for h <= i < 2^global_depth.
CopyUpperHalf(d, h) ==
  [d EXCEPT
     !.bucket_page_ids = [i \in DirSlots |->
         IF i >= h /\ i < Pow2(d.global_depth) THEN d.bucket_page_ids[i - h]
         ELSE d.bucket_page_ids[i]],
     !.local_depths = [i \in DirSlots |->
         IF i >= h /\ i < Pow2(d.global_depth) THEN d.local_depths[i - h]
         ELSE d.local_depths[i]]]

\* A variant that reports the key as inserted when the directory is full.
DirectoryFullOverlooked(s) == [s |-> s, ok |-> TRUE]

\* The return of Insert when the full bucket's local depth equals the global
\* depth and the global depth has reached the max depth: [s, ok].
DirectoryFull(s) == [s |-> s, ok |-> FALSE]

\* What an activation of Insert hands back when it returns without calling
\* Insert again.
Returned(r) == [s |-> r.s, ok |-> r.ok, again |-> FALSE]

\* One activation of Insert, from its entry to its return or to its call of
\* itself after a split: [s, ok, again].
InsertLevel(s, key, value) ==
  IF GetValue(s, key)[1] THEN Returned([s |-> s, ok |-> FALSE])
  ELSE
    LET hash_key == Hash(key)
        directory_index == HashToDirectoryIndex(hash_key)
        directory_page_id == GetDirectoryPageId(s.header, directory_index)
    IN
    IF directory_page_id = INVALID_PAGE_ID
    THEN Returned(InsertToNewDirectory(s, directory_index, hash_key, key, value))
    ELSE
      LET directory_page == s.dirs[directory_page_id]
          bucket_index == HashToBucketIndex(directory_page, hash_key)
          bucket_page_id == GetBucketPageId(directory_page, bucket_index)
      IN
      IF bucket_page_id = INVALID_PAGE_ID
      THEN Returned(InsertToNewBucket(s, directory_page_id, bucket_index, key, value))
      ELSE
        LET r == BucketInsert(s.buckets[bucket_page_id], key, value) IN
        IF r.ok THEN Returned([s |-> [s EXCEPT !.buckets[bucket_page_id] = r.b], ok |-> TRUE])
        ELSE
          LET h == Pow2(directory_page.global_depth)
              full == GetLocalDepth(directory_page, bucket_index) = directory_page.global_depth
          IN
          IF full /\ directory_page.global_depth >= directory_page.max_depth
          THEN Returned(DirectoryFull(s))
          ELSE
            LET d1 == IF full THEN CopyUpperHalf(IncrGlobalDepth(directory_page), h)
                      ELSE directory_page
                d2 == IncrLocalDepth(IncrLocalDepth(d1, bucket_index), bucket_index + h)
                sp == SplitBucket([s EXCEPT !.dirs[directory_page_id] = d2],
                                  directory_page_id, bucket_page_id, bucket_index)
            IN
            IF ~sp.ok THEN Returned(sp) ELSE [s |-> sp.s, ok |-> FALSE, again |-> TRUE]

\* Insert: [s, ok]. The function calls itself after a split.
RECURSIVE Insert(_, _, _)
Insert(s, key, value) ==
  LET r == InsertLevel(s, key, value)
  IN IF r.again THEN Insert(r.s, key, value) ELSE [s |-> r.s, ok |-> r.ok]

\* UpdateDirectoryMapping: the loop over i = from .. 2^global_depth - 1.
RECURSIVE UpdateDirectoryMapping(_, _, _, _, _, _)
UpdateDirectoryMapping(directory, i, new_bucket_idx, new_bucket_page_id, new_local_depth, local_depth_mask) ==
  IF i >= Pow2(directory.global_depth) THEN directory
  ELSE
    LET d1 ==
          IF GetBucketPageId(directory, i) = GetBucketPageId(directory, new_bucket_idx)
          THEN IF BitAnd(i, local_depth_mask) # 0
               THEN SetLocalDepth(SetBucketPageId(directory, i, new_bucket_page_id),
                                  i, new_local_depth)
               ELSE SetLocalDepth(directory, i, new_local_depth)
          ELSE directory
    IN UpdateDirectoryMapping(d1, i + 1, new_bucket_idx, new_bucket_page_id,
                              new_local_depth, local_depth_mask)

\* BufferPoolManager::DeletePage as the hash table meets it: the call fails
\* on a page some live guard still pins, and otherwise frees the page.
DeletePage(s, page_id, pinned) ==
  IF page_id \in pinned THEN s ELSE [s EXCEPT !.freed = s.freed \cup {page_id}]

\* The loop of Remove that rewrites the directory after a merge:
\* for i = from .. update_count - 1.
RECURSIVE RemoveUpdateLoop(_, _, _, _, _, _)
RemoveUpdateLoop(directory, i, update_count, local_depth, mask_idx, check_page_id) ==
  IF i >= update_count THEN directory
  ELSE RemoveUpdateLoop(
         UpdateDirectoryMapping(directory, 0, i * Pow2(local_depth) + mask_idx,
                                check_page_id, local_depth, 0),
         i + 1, update_count, local_depth, mask_idx, check_page_id)

\* The merge loop of Remove, while (local_depth > 0): [s, check_page_id,
\* emptied], emptied being the pages the loop merged away.
RECURSIVE MergeLoop(_, _, _, _, _, _, _, _)
MergeLoop(s, directory_page_id, bucket_index, global_depth, check_page_id, local_depth, ub, emptied) ==
  IF local_depth <= 0
  THEN [s |-> s, check_page_id |-> check_page_id, emptied |-> emptied]
  ELSE
    LET directory_page == s.dirs[directory_page_id]
        convert_mask == Pow2(local_depth - 1)
        merge_bucket_index == BitXor(bucket_index, convert_mask)
        merge_local_depth == GetLocalDepth(directory_page, merge_bucket_index)
        merge_page_id == GetBucketPageId(directory_page, merge_bucket_index)
        check_empty == IsEmpty(s.buckets[check_page_id])
        merge_empty == IsEmpty(s.buckets[merge_page_id])
        pinned == {directory_page_id, check_page_id, merge_page_id}
    IN
    IF merge_local_depth # local_depth \/ (~check_empty /\ ~merge_empty)
    THEN [s |-> s, check_page_id |-> check_page_id, emptied |-> emptied]
    ELSE
      LET s1 == IF check_empty THEN DeletePage(s, check_page_id, pinned)
                ELSE DeletePage(s, merge_page_id, pinned)
          gone == IF check_empty THEN check_page_id ELSE merge_page_id
          check2 == IF check_empty THEN merge_page_id ELSE check_page_id
          d1 == DecrLocalDepth(directory_page, bucket_index)
          ld == GetLocalDepth(d1, bucket_index)
          local_depth_mask == GetLocalDepthMask(d1, bucket_index, ub)
          mask_idx == BitAnd(bucket_index, local_depth_mask)
          update_count == Pow2(global_depth - ld)
          d2 == RemoveUpdateLoop(d1, 0, update_count, ld, mask_idx, check2)
      IN
      MergeLoop([s1 EXCEPT !.dirs[directory_page_id] = d2],
                directory_page_id, bucket_index, global_depth, check2, ld, ub,
                emptied \cup {gone})

\* while (directory_page->CanShrink()) directory_page->DecrGlobalDepth();
RECURSIVE ShrinkLoop(_)
ShrinkLoop(d) == IF CanShrink(d) THEN ShrinkLoop(DecrGlobalDepth(d)) ELSE d

\* Remove: [s, ok, emptied, survivor]; emptied are the pages the merge loop
\* merged away and survivor the page it ended on.
Remove(s, key, ub) ==
  LET hash == Hash(key)
      directory_page_id == GetDirectoryPageId(s.header, HashToDirectoryIndex(hash))
      failed == [s |-> s, ok |-> FALSE, emptied |-> {}, survivor |-> INVALID_PAGE_ID]
  IN
  IF directory_page_id = INVALID_PAGE_ID THEN failed
  ELSE
    LET directory_page == s.dirs[directory_page_id]
        bucket_index == HashToBucketIndex(directory_page, hash)
        bucket_page_id == GetBucketPageId(directory_page, bucket_index)
    IN
    IF bucket_page_id = INVALID_PAGE_ID THEN failed
    ELSE
      LET r == BucketRemove(s.buckets[bucket_page_id], key) IN
      IF ~r.ok THEN failed
      ELSE
        LET s1 == [s EXCEPT !.buckets[bucket_page_id] = r.b]
            m == MergeLoop(s1, directory_page_id, bucket_index,
                           directory_page.global_depth, bucket_page_id,
                           GetLocalDepth(directory_page, bucket_index), ub, {})
        IN
        [s |-> [m.s EXCEPT !.dirs[directory_page_id] = ShrinkLoop(m.s.dirs[directory_page_id])],
         ok |-> TRUE, emptied |-> m.emptied, survivor |-> m.check_page_id]

(***************************************************************************)
(* The hash table as a state machine                                       *)
(***************************************************************************)
HTState ==
  [header |-> htHeader, dirs |-> htDirs, buckets |-> htBuckets, next |-> htNextPage,
   freed |-> htFreed, bucket_max_size |-> htBucketMax]

HTSet(s) ==
  /\ htHeader' = s.header
  /\ htDirs' = s.dirs
  /\ htBuckets' = s.buckets
  /\ htNextPage' = s.next
  /\ htFreed' = s.freed
  /\ htBucketMax' = s.bucket_max_size

EmptyMap == [x \in {} |-> 0]

Without(f, k) == [x \in DOMAIN f \ {k} |-> f[x]]

\* The constructor: the header page is the first page of the pool.
\* No call of the table is under way: a reader (GetValue) and a writer
\* (Insert or Remove) thread, each before its call.
HTThreadsIdle ==
  [gets |-> 0,
   reader |-> [pc |-> "idle", key |-> 0, directory_page_id |-> INVALID_PAGE_ID,
               bucket_page_id |-> INVALID_PAGE_ID, steady |-> FALSE, expected |-> 0,
               result |-> <<FALSE, 0>>],
   writer |-> [pc |-> "idle", op |-> "none", key |-> 0, value |-> 0,
               directory_page_id |-> INVALID_PAGE_ID]]

HTInit ==
  /\ htHeader = HeaderInit
  /\ htDirs = EmptyMap
  /\ htBuckets = EmptyMap
  /\ htNextPage = 1
  /\ htFreed = {}
  /\ htBucketMax \in 1 .. MaxBucketSize
  /\ htExpect = EmptyMap
  /\ htLast = [op |-> "none", key |-> 0, ok |-> FALSE, emptied |-> {},
               survivor |-> INVALID_PAGE_ID, dirs_before |-> EmptyMap,
               present_before |-> FALSE, found_before |-> <<FALSE, 0>>,
               header_before |-> HeaderInit, buckets_before |-> EmptyMap]
  /\ htOps = 0
  /\ htInsertOnly = TRUE
  /\ htRound = [in_order |-> TRUE, inserted |-> {}, pending |-> {}]
  /\ htThreads = HTThreadsIdle

HTInsert(key, value) ==
  /\ htOps < MaxHTOps
  /\ LET r == Insert(HTState, key, value) IN
     /\ HTSet(r.s)
     /\ htExpect' = IF r.ok THEN htExpect @@ (key :> value) ELSE htExpect
     /\ htLast' = [op |-> "insert", key |-> key, ok |-> r.ok, emptied |-> {},
                   survivor |-> INVALID_PAGE_ID, dirs_before |-> htDirs,
                   present_before |-> key \in DOMAIN htExpect,
                   found_before |-> GetValue(HTState, key),
                   header_before |-> htHeader, buckets_before |-> htBuckets]
     /\ htInsertOnly' = (htInsertOnly /\ r.ok)
     /\ htRound' = [htRound EXCEPT !.in_order = htInsertOnly /\ r.ok,
                                   !.inserted = @ \cup {key},
                                   !.pending = @ \cup {key}]
  /\ htOps' = htOps + 1
  /\ UNCHANGED <<htThreads, bpVars, trVars, tsVars, pgVars, dsVars, lruVars, exVars>>

HTRemove(key, ub) ==
  /\ htOps < MaxHTOps
  /\ LET r == Remove(HTState, key, ub) IN
     /\ HTSet(r.s)
     /\ htExpect' = IF r.ok THEN Without(htExpect, key) ELSE htExpect
     /\ htLast' = [op |-> "remove", key |-> key, ok |-> r.ok, emptied |-> r.emptied,
                   survivor |-> r.survivor, dirs_before |-> htDirs,
                   present_before |-> key \in DOMAIN htExpect,
                   found_before |-> GetValue(HTState, key),
                   header_before |-> htHeader, buckets_before |-> htBuckets]
     /\ htInsertOnly' = FALSE
     /\ htRound' = [htRound EXCEPT !.in_order = @ /\ key \in htRound.pending,
                                   !.pending = @ \ {key}]
  /\ htOps' = htOps + 1
  /\ UNCHANGED <<htThreads, bpVars, trVars, tsVars, pgVars, dsVars, lruVars, exVars>>

InitHT == HTInit /\ BPIdle /\ TRIdle /\ TSIdle /\ PGIdle /\ DSIdle /\ LRUIdle /\ EXIdle

NextHT ==
  \/ \E key \in HTKeys, value \in HTValues : HTInsert(key, value)
  \/ \E key \in HTKeys, ub \in UBShiftResults : HTRemove(key, ub)

SpecHT == InitHT /\ [][NextHT]_vars

\* The table offered only keys whose hashes agree on their low bits, so that
\* a directory must grow to its max depth to tell them apart; the last key
\* agrees with key 1 on every bit of the hash a directory can use.
HTCollidingKeys == {1, 9, 1 + Pow2(DirMaxDepth)}

NextHTFull ==
  \/ \E key \in HTCollidingKeys, value \in HTValues : HTInsert(key, value)
  \/ \E key \in HTCollidingKeys, ub \in UBShiftResults : HTRemove(key, ub)

SpecHTFull == InitHT /\ [][NextHTFull]_vars

(***************************************************************************)
(* Claims about the hash table                                             *)
(***************************************************************************)
\* C1: after a run of inserts of distinct keys that all returned true,
\* GetValue finds every inserted key with the value inserted for it.
C1_InsertedKeysAreFound ==
  htInsertOnly =>
    \A k \in DOMAIN htExpect : GetValue(HTState, k) = <<TRUE, htExpect[k]>>

\* C4: in every directory, every active slot j that agrees with an active
\* slot i on the low local_depths[i] bits names the same bucket page as i.
C4_SlotsSharingLowBitsShareBucket ==
  \A p \in DOMAIN htDirs :
    LET d == htDirs[p] IN
    \A i, j \in 0 .. (DirSize(d) - 1) :
      (i % Pow2(d.local_depths[i]) = j % Pow2(d.local_depths[i]))
        => d.bucket_page_ids[i] = d.bucket_page_ids[j]

\* C5: when a remove has merged buckets, every slot that is active when it
\* returns and named a merged-away bucket before names the surviving bucket.
C5_MergeRepointsSlots ==
  (htLast.op = "remove" /\ htLast.emptied # {}) =>
    \A p \in DOMAIN htLast.dirs_before :
      \A i \in 0 .. (DirSize(htDirs[p]) - 1) :
        htLast.dirs_before[p].bucket_page_ids[i] \in htLast.emptied
          => htDirs[p].bucket_page_ids[i] = htLast.survivor

\* C20: an Insert of a key that an earlier Insert stored, and no Remove took
\* out since, returns false and leaves the header, the directories and the
\* buckets, and what GetValue returns for the key, as they were.
C20_DuplicateInsertRefused ==
  (htLast.op = "insert" /\ htLast.present_before) =>
    /\ ~htLast.ok
    /\ htHeader = htLast.header_before
    /\ htDirs = htLast.dirs_before
    /\ htBuckets = htLast.buckets_before
    /\ GetValue(HTState, htLast.key) = htLast.found_before

\* C21: once a run of inserts that all returned true has been followed by a
\* Remove of every inserted key, each called once and in any order, every
\* directory has global_depth 0 and the bucket of its only slot is empty.
C21_RoundTripShrinksDirectory ==
  (htRound.in_order /\ htRound.inserted # {} /\ htRound.pending = {}) =>
    \A p \in DOMAIN htDirs :
      /\ htDirs[p].global_depth = 0
      /\ GetBucketPageId(htDirs[p], 0) \in DOMAIN htBuckets
      /\ IsEmpty(htBuckets[GetBucketPageId(htDirs[p], 0)])

\* C22: when a Remove has merged buckets, DeletePage has succeeded on every
\* page it merged away.
C22_MergedPageIsDeallocated ==
  (htLast.op = "remove" /\ htLast.emptied # {}) => htLast.emptied \subseteq htFreed

\* The last operation was an Insert that met, in the state it was called in,
\* a full target bucket whose local depth, the global depth and the
\* directory's max depth are all equal.
InsertMetFullDirectory ==
  /\ htLast.op = "insert"
  /\ LET hash == Hash(htLast.key)
         directory_page_id ==
           GetDirectoryPageId(htLast.header_before, HashToDirectoryIndex(hash))
     IN
     /\ directory_page_id # INVALID_PAGE_ID
     /\ LET directory_page == htLast.dirs_before[directory_page_id]
            bucket_index == HashToBucketIndex(directory_page, hash)
            bucket_page_id == GetBucketPageId(directory_page, bucket_index)
        IN
        /\ bucket_page_id \in DOMAIN htLast.buckets_before
        /\ IsFull(htLast.buckets_before[bucket_page_id])
        /\ GetLocalDepth(directory_page, bucket_index) = directory_page.global_depth
        /\ directory_page.global_depth = directory_page.max_depth

\* C23: no directory's global depth exceeds its max depth, and an Insert
\* that meets a full target bucket with local depth = global depth = max
\* depth returns false and leaves the header, the directories (so nothing
\* was split) and the entries of every bucket as they were.
C23_FullDirectoryRefusesInsert ==
  /\ \A p \in DOMAIN htDirs : htDirs[p].global_depth <= htDirs[p].max_depth
  /\ InsertMetFullDirectory =>
       /\ ~htLast.ok
       /\ htHeader = htLast.header_before
       /\ htDirs = htLast.dirs_before
       /\ htBuckets = htLast.buckets_before

\* An Insert of a key that is not stored has met the full directory.
C23_Witness ==
  /\ InsertMetFullDirectory
  /\ ~htLast.found_before[1]
  /\ \E p \in DOMAIN htDirs : htDirs[p].global_depth = DirMaxDepth

\* The table as it was when the last operation was called.
HTStateBefore ==
  [header |-> htLast.header_before, dirs |-> htLast.dirs_before,
   buckets |-> htLast.buckets_before, next |-> htNextPage,
   freed |-> htFreed, bucket_max_size |-> htBucketMax]

\* C34: after a Remove of a key, GetValue returns for every other key that
\* it found before the Remove what it returned before, merges and shrinking
\* of the directory included.
C34_RemoveKeepsOtherKeys ==
  htLast.op = "remove" =>
    \A k \in HTKeys \ {htLast.key} :
      GetValue(HTStateBefore, k)[1] => GetValue(HTState, k) = GetValue(HTStateBefore, k)

(***************************************************************************)
(* The hash table under a reader and a writer thread. A step is what a     *)
(* thread does from one latch it has to wait for to the next: a thread     *)
(* waits for a page's latch while the other thread holds the page latched  *)
(* in a mode that excludes it. The writer holds the directory's write      *)
(* latch from HCWriteLatchDirectory to the end of HCWriteBody, the reader  *)
(* the directory's read latch while its pc is "directory_latched" and the  *)
(* bucket's read latch while its pc is "bucket_latched". Of the sequential *)
(* histories only htExpect and htOps are kept.                             *)
(***************************************************************************)
MaxHTCalls == 4
MaxHTGets == 1
HTConcurrentKeys == {0, 1, 4}

HCSet(reader, writer, gets) ==
  htThreads' = [gets |-> gets, reader |-> reader, writer |-> writer]

\* A call of the writer on the reader's key ends the reader's claim to have
\* seen its key present throughout.
HCDisturbed(reader, key) ==
  IF reader.pc \notin {"idle", "done"} /\ reader.key = key
  THEN [reader EXCEPT !.steady = FALSE] ELSE reader

\* GetValue up to header_guard.Drop(): the header is latched, read and
\* released.
HCGetBegin(key) ==
  /\ htThreads.gets < MaxHTGets
  /\ htThreads.reader.pc \in {"idle", "done"}
  /\ LET directory_page_id == GetDirectoryPageId(htHeader, HashToDirectoryIndex(Hash(key)))
         steady == /\ key \in DOMAIN htExpect
                   /\ ~(htThreads.writer.pc # "idle" /\ htThreads.writer.key = key)
     IN HCSet([pc |-> IF directory_page_id = INVALID_PAGE_ID THEN "done" ELSE "header_read",
               key |-> key, directory_page_id |-> directory_page_id,
               bucket_page_id |-> INVALID_PAGE_ID, steady |-> steady,
               expected |-> IF key \in DOMAIN htExpect THEN htExpect[key] ELSE 0,
               result |-> <<FALSE, 0>>],
              htThreads.writer, htThreads.gets + 1)
  /\ UNCHANGED <<htHeader, htDirs, htBuckets, htNextPage, htFreed, htBucketMax, htExpect,
                 htLast, htOps, htInsertOnly, htRound>>
  /\ UNCHANGED <<bpVars, trVars, tsVars, pgVars, dsVars, lruVars, exVars>>

\* FetchPageRead(directory_page_id) and the read of the bucket's page id.
HCGetLatchDirectory ==
  /\ htThreads.reader.pc = "header_read"
  /\ ~(htThreads.writer.pc = "directory_latched"
         /\ htThreads.writer.directory_page_id = htThreads.reader.directory_page_id)
  /\ LET reader == htThreads.reader
         directory_page == htDirs[reader.directory_page_id]
         bucket_page_id ==
           GetBucketPageId(directory_page, HashToBucketIndex(directory_page, Hash(reader.key)))
     IN HCSet([reader EXCEPT !.pc = IF bucket_page_id = INVALID_PAGE_ID THEN "done"
                                    ELSE "directory_latched",
                             !.bucket_page_id = bucket_page_id],
              htThreads.writer, htThreads.gets)
  /\ UNCHANGED <<htHeader, htDirs, htBuckets, htNextPage, htFreed, htBucketMax, htExpect,
                 htLast, htOps, htInsertOnly, htRound>>
  /\ UNCHANGED <<bpVars, trVars, tsVars, pgVars, dsVars, lruVars, exVars>>

\* FetchPageRead(bucket_page_id), then directory_guard.Drop(). The writer
\* holds a bucket's write latch only inside HCWriteBody.
HCGetLatchBucket ==
  /\ htThreads.reader.pc = "directory_latched"
  /\ HCSet([htThreads.reader EXCEPT !.pc = "bucket_latched"], htThreads.writer, htThreads.gets)
  /\ UNCHANGED <<htHeader, htDirs, htBuckets, htNextPage, htFreed, htBucketMax, htExpect,
                 htLast, htOps, htInsertOnly, htRound>>
  /\ UNCHANGED <<bpVars, trVars, tsVars, pgVars, dsVars, lruVars, exVars>>

\* bucket_page->Lookup and the return.
HCGetLookup ==
  /\ htThreads.reader.pc = "bucket_latched"
  /\ HCSet([htThreads.reader EXCEPT
              !.pc = "done",
              !.result = Lookup(htBuckets[htThreads.reader.bucket_page_id], htThreads.reader.key)],
           htThreads.writer, htThreads.gets)
  /\ UNCHANGED <<htHeader, htDirs, htBuckets, htNextPage, htFreed, htBucketMax, htExpect,
                 htLast, htOps, htInsertOnly, htRound>>
  /\ UNCHANGED <<bpVars, trVars, tsVars, pgVars, dsVars, lruVars, exVars>>

\* The start of an Insert or a Remove, up to header_guard.Drop(): Insert
\* returns here when its GetValue finds the key, and makes the directory
\* under the header's latch when there is none; Remove returns here when
\* there is no directory.
HCWriteBegin(op, key, value) ==
  /\ htOps < MaxHTCalls
  /\ htThreads.writer.pc = "idle"
  /\ LET directory_page_id == GetDirectoryPageId(htHeader, HashToDirectoryIndex(Hash(key)))
         reader == HCDisturbed(htThreads.reader, key)
         called == [pc |-> "called", op |-> op, key |-> key, value |-> value,
                    directory_page_id |-> directory_page_id]
     IN
     IF op = "insert" /\ directory_page_id = INVALID_PAGE_ID
     THEN LET r == InsertLevel(HTState, key, value) IN
          /\ HTSet(r.s)
          /\ htExpect' = IF r.ok THEN htExpect @@ (key :> value) ELSE htExpect
          /\ HCSet(reader, htThreads.writer, htThreads.gets)
     ELSE /\ HCSet(reader,
                   IF directory_page_id = INVALID_PAGE_ID \/ (op = "insert" /\ GetValue(HTState, key)[1])
                   THEN htThreads.writer ELSE called,
                   htThreads.gets)
          /\ UNCHANGED <<htHeader, htDirs, htBuckets, htNextPage, htFreed, htBucketMax, htExpect>>
  /\ htOps' = htOps + 1
  /\ UNCHANGED <<htLast, htInsertOnly, htRound>>
  /\ UNCHANGED <<bpVars, trVars, tsVars, pgVars, dsVars, lruVars, exVars>>

\* FetchPageWrite(directory_page_id)
HCWriteLatchDirectory ==
  /\ htThreads.writer.pc = "called"
  /\ ~(htThreads.reader.pc = "directory_latched"
         /\ htThreads.reader.directory_page_id = htThreads.writer.directory_page_id)
  /\ HCSet(htThreads.reader, [htThreads.writer EXCEPT !.pc = "directory_latched"], htThreads.gets)
  /\ UNCHANGED <<htHeader, htDirs, htBuckets, htNextPage, htFreed, htBucketMax, htExpect,
                 htLast, htOps, htInsertOnly, htRound>>
  /\ UNCHANGED <<bpVars, trVars, tsVars, pgVars, dsVars, lruVars, exVars>>

\* FetchPageWrite(bucket_page_id) and the rest of the activation under the
\* directory's and the bucket's write latches: Insert up to its return or
\* its call of itself, Remove up to its return (its merge loop latches
\* buckets for reading only).
HCWriteBody(ub) ==
  /\ htThreads.writer.pc = "directory_latched"
  /\ LET writer == htThreads.writer
         directory_page == htDirs[writer.directory_page_id]
         bucket_page_id ==
           GetBucketPageId(directory_page, HashToBucketIndex(directory_page, Hash(writer.key)))
     IN
     /\ ~(htThreads.reader.pc = "bucket_latched"
            /\ htThreads.reader.bucket_page_id = bucket_page_id)
     /\ IF writer.op = "insert"
        THEN LET r == InsertLevel(HTState, writer.key, writer.value) IN
             /\ HTSet(r.s)
             /\ htExpect' = IF r.ok THEN htExpect @@ (writer.key :> writer.value) ELSE htExpect
             /\ HCSet(htThreads.reader,
                      IF r.again THEN [writer EXCEPT !.pc = "called"]
                      ELSE HTThreadsIdle.writer,
                      htThreads.gets)
        ELSE LET r == Remove(HTState, writer.key, ub) IN
             /\ HTSet(r.s)
             /\ htExpect' = IF r.ok THEN Without(htExpect, writer.key) ELSE htExpect
             /\ HCSet(htThreads.reader, HTThreadsIdle.writer, htThreads.gets)
  /\ UNCHANGED <<htLast, htOps, htInsertOnly, htRound>>
  /\ UNCHANGED <<bpVars, trVars, tsVars, pgVars, dsVars, lruVars, exVars>>

NextHTC ==
  \/ \E key \in HTConcurrentKeys : HCGetBegin(key)
  \/ HCGetLatchDirectory
  \/ HCGetLatchBucket
  \/ HCGetLookup
  \/ \E op \in {"insert", "remove"}, key \in HTConcurrentKeys, value \in HTValues :
       HCWriteBegin(op, key, value)
  \/ HCWriteLatchDirectory
  \/ \E ub \in UBShiftResults : HCWriteBody(ub)

SpecHTC == InitHT /\ [][NextHTC]_vars

\* C35: a GetValue of a key that an Insert had stored when the GetValue
\* began, and on which no Insert or Remove was under way or called while
\* the GetValue ran, returns true with the key's value, whatever the
\* writer did to other keys meanwhile.
C35_ConcurrentGetFindsPresentKey ==
  (htThreads.reader.pc = "done" /\ htThreads.reader.steady) =>
    htThreads.reader.result = <<TRUE, htThreads.reader.expected>>

\* C40: as long as only inserts have run (so that no directory has shrunk)
\* every slot at or above 2^global_depth is as Init left it: no split has
\* written a bucket page id or a local depth outside the active slots.
C40_SplitTouchesActiveSlotsOnly ==
  htInsertOnly =>
    \A p \in DOMAIN htDirs :
      \A i \in DirSlots :
        i >= Pow2(htDirs[p].global_depth) =>
          /\ htDirs[p].local_depths[i] = DirInit(DirMaxDepth).local_depths[i]
          /\ htDirs[p].bucket_page_ids[i] = DirInit(DirMaxDepth).bucket_page_ids[i]

(***************************************************************************)
(* LRU-K replacer                                                          *)
(***************************************************************************)
MaxPoolSize == 2
MaxReplacerK == 2

\* Frame ids the replacer's maps are indexed by; the bound check admits
\* frame_id = replacer_size_.
ReplacerFrames == 0 .. (MaxPoolSize + 1)

SeqMax(S) == CHOOSE x \in S : \A y \in S : y <= x
SeqMin(S) == CHOOSE x \in S : \A y \in S : x <= y

\* std::list::remove / erase of a frame's node.
ListRemove(list, frame) == SelectSeq(list, LAMBDA x : x # frame)
CacheErase(cache, frame) == SelectSeq(cache, LAMBDA x : x[1] # frame)

\* std::upper_bound with CmpTimestamp: the first position whose k-th timestamp
\* is greater than kth_time.
CmpTimestamp(f1, f2) == f1[2] < f2[2]
UpperBoundAtEnd(cache, new_cache) == Len(cache) + 1
UpperBound(cache, new_cache) ==
  LET later == {i \in 1 .. Len(cache) : CmpTimestamp(new_cache, cache[i])}
  IN IF later = {} THEN Len(cache) + 1 ELSE SeqMin(later)

ListInsert(list, pos, x) == SubSeq(list, 1, pos - 1) \o <<x>> \o SubSeq(list, pos, Len(list))

\* outcome: "ok", "threw" (std::exception) or "relock" (latch_ locked again by
\* the thread that holds it).
LRUKReplacerInit(num_frames, k) ==
  [replacer_size |-> num_frames, k |-> k, max_size |-> num_frames, curr_size |-> 0,
   current_timestamp |-> 0,
   recorded_cnt |-> [f \in ReplacerFrames |-> 0],
   time_frame |-> [f \in ReplacerFrames |-> <<>>],
   evictable |-> [f \in ReplacerFrames |-> FALSE],
   new_frame |-> <<>>, cache_frame |-> <<>>, outcome |-> "ok"]

ReplacerSize(r) == r.curr_size

\* Evict: [r, ok, frame_id].
Evict(r) ==
  LET new_idx == {i \in 1 .. Len(r.new_frame) : r.evictable[r.new_frame[i]]}
      cache_idx == {i \in 1 .. Len(r.cache_frame) : r.evictable[r.cache_frame[i][1]]}
      forget(frame) ==
        [r EXCEPT !.recorded_cnt[frame] = 0, !.curr_size = @ - 1, !.time_frame[frame] = <<>>,
                  !.new_frame = ListRemove(@, frame), !.cache_frame = CacheErase(@, frame)]
  IN IF ReplacerSize(r) = 0 THEN [r |-> r, ok |-> FALSE, frame_id |-> -1]
     ELSE IF new_idx # {}
       THEN LET frame == r.new_frame[SeqMax(new_idx)]
            IN [r |-> forget(frame), ok |-> TRUE, frame_id |-> frame]
     ELSE IF cache_idx # {}
       THEN LET frame == r.cache_frame[SeqMin(cache_idx)][1]
            IN [r |-> forget(frame), ok |-> TRUE, frame_id |-> frame]
     ELSE [r |-> r, ok |-> FALSE, frame_id |-> -1]

RecordAccess(r, frame_id) ==
  IF r.outcome = "relock" THEN r
  ELSE IF frame_id > r.replacer_size THEN [r EXCEPT !.outcome = "threw"]
  ELSE
    LET cnt == r.recorded_cnt[frame_id] + 1
        ts == r.current_timestamp + 1
        r1 == [r EXCEPT !.outcome = "ok", !.current_timestamp = ts,
                        !.recorded_cnt[frame_id] = cnt,
                        !.time_frame[frame_id] = Append(@, ts)]
        r2 == IF cnt = 1
              THEN [r1 EXCEPT !.evictable[frame_id] = TRUE, !.curr_size = @ + 1,
                              !.new_frame = <<frame_id>> \o @]
              ELSE r1
    IN IF cnt = 1 /\ r1.curr_size = r1.max_size THEN [r1 EXCEPT !.outcome = "relock"]
       ELSE IF cnt = r.k
         THEN LET new_cache == <<frame_id, Head(r2.time_frame[frame_id])>>
              IN [r2 EXCEPT !.new_frame = ListRemove(@, frame_id),
                            !.cache_frame = ListInsert(@, UpperBound(@, new_cache), new_cache)]
       ELSE IF cnt > r.k
         THEN LET times == Tail(r2.time_frame[frame_id])
                  new_cache == <<frame_id, Head(times)>>
                  erased == CacheErase(r2.cache_frame, frame_id)
              IN [r2 EXCEPT !.time_frame[frame_id] = times,
                            !.cache_frame = ListInsert(erased, UpperBound(erased, new_cache), new_cache)]
       ELSE r2

SetEvictableSkipped(r, frame_id, set_evictable) == r
SetEvictableKeepingSize(r, frame_id, set_evictable) ==
  IF r.outcome = "relock" \/ r.recorded_cnt[frame_id] = 0 THEN r
  ELSE [r EXCEPT !.outcome = "ok", !.evictable[frame_id] = set_evictable]
SetEvictable(r, frame_id, set_evictable) ==
  IF r.outcome = "relock" \/ r.recorded_cnt[frame_id] = 0 THEN r
  ELSE
    LET status == r.evictable[frame_id]
        r1 == [r EXCEPT !.outcome = "ok", !.evictable[frame_id] = set_evictable]
    IN IF status /\ ~set_evictable
         THEN [r1 EXCEPT !.max_size = @ - 1, !.curr_size = @ - 1]
       ELSE IF ~status /\ set_evictable
         THEN [r1 EXCEPT !.max_size = @ + 1, !.curr_size = @ + 1]
       ELSE r1

ReplacerRemove(r, frame_id) ==
  IF r.outcome = "relock" THEN r
  ELSE IF frame_id > r.replacer_size THEN [r EXCEPT !.outcome = "threw"]
  ELSE IF r.recorded_cnt[frame_id] = 0 THEN [r EXCEPT !.outcome = "ok"]
  ELSE IF ~r.evictable[frame_id] THEN [r EXCEPT !.outcome = "threw"]
  ELSE IF r.recorded_cnt[frame_id] < r.k
    THEN [r EXCEPT !.outcome = "ok", !.new_frame = ListRemove(@, frame_id),
                   !.recorded_cnt[frame_id] = 0, !.time_frame[frame_id] = <<>>,
                   !.curr_size = @ - 1]
  ELSE [r EXCEPT !.outcome = "ok", !.cache_frame = CacheErase(@, frame_id),
                 !.recorded_cnt[frame_id] = 0, !.time_frame[frame_id] = <<>>,
                 !.curr_size = @ - 1]

(***************************************************************************)
(* Buffer pool manager                                                     *)
(***************************************************************************)
MaxPages == 3
MaxBPOps == 7
PageIds == 0 .. (MaxPages - 1)
PageData == {1, 2}

\* A Page after construction or ResetMemory plus metadata reset: zeroed data.
PageInit == [page_id |-> INVALID_PAGE_ID, pin_count |-> 0, is_dirty |-> FALSE, data |-> 0]

BufferPoolManagerInit(pool_size, replacer_k) ==
  [pool_size |-> pool_size,
   pages |-> [f \in 0 .. (pool_size - 1) |-> PageInit],
   page_table |-> EmptyMap,
   free_list |-> [i \in 1 .. pool_size |-> i - 1],
   next_page_id |-> 0,
   replacer |-> LRUKReplacerInit(pool_size, replacer_k),
   disk |-> [p \in PageIds |-> 0]]

\* page_table_.emplace: keeps an existing mapping of the key.
Emplace(table, page_id, frame_id) ==
  IF page_id \in DOMAIN table THEN table ELSE table @@ (page_id :> frame_id)

\* The replacement frame: the back of the free list, else the replacer's victim.
\* [b, ok, frame_id, evicted]
TakeFrameKeepingFreeList(b) ==
  IF b.free_list # <<>>
  THEN [b |-> b, ok |-> TRUE, frame_id |-> b.free_list[Len(b.free_list)], evicted |-> FALSE]
  ELSE LET e == Evict(b.replacer)
       IN [b |-> [b EXCEPT !.replacer = e.r], ok |-> e.ok, frame_id |-> e.frame_id,
           evicted |-> e.ok]
TakeFrame(b) ==
  IF b.free_list # <<>>
  THEN [b |-> [b EXCEPT !.free_list = SubSeq(@, 1, Len(@) - 1)], ok |-> TRUE,
        frame_id |-> b.free_list[Len(b.free_list)], evicted |-> FALSE]
  ELSE LET e == Evict(b.replacer)
       IN [b |-> [b EXCEPT !.replacer = e.r], ok |-> e.ok, frame_id |-> e.frame_id,
           evicted |-> e.ok]

\* The write request scheduled for a page and waited for.
DiskWrite(b, frame_id) ==
  [b EXCEPT !.disk[b.pages[frame_id].page_id] = b.pages[frame_id].data,
            !.pages[frame_id].is_dirty = FALSE]

WriteBackVictimSkipped(b, frame_id) == [b EXCEPT !.pages[frame_id].is_dirty = FALSE]
WriteBackVictim(b, frame_id) ==
  IF b.pages[frame_id].is_dirty THEN DiskWrite(b, frame_id) ELSE b

\* What NewPage and FetchPage do to the frame they took.
\* [b, frame_id (-1 for nullptr), page_id, hit, evicted, victim_page_id, victim_pin_count]
InstallPage(b0, t, page_id, next_page_id, read) ==
  LET frame_id == t.frame_id
      b1 == WriteBackVictim(t.b, frame_id)
      old_page_id == b1.pages[frame_id].page_id
      table == Emplace(Without(b1.page_table, old_page_id), page_id, frame_id)
      page == [b1.pages[frame_id] EXCEPT !.page_id = page_id, !.pin_count = 1,
                                         !.data = IF read THEN b1.disk[page_id] ELSE 0]
      replacer == SetEvictable(RecordAccess(b1.replacer, frame_id), frame_id, FALSE)
  IN [b |-> [b1 EXCEPT !.page_table = table, !.pages[frame_id] = page,
                       !.next_page_id = next_page_id, !.replacer = replacer],
      frame_id |-> frame_id, page_id |-> page_id, hit |-> FALSE, evicted |-> t.evicted,
      victim_page_id |-> b0.pages[frame_id].page_id,
      victim_pin_count |-> b0.pages[frame_id].pin_count]

NoPage(b, page_id) ==
  [b |-> b, frame_id |-> -1, page_id |-> page_id, hit |-> FALSE, evicted |-> FALSE,
   victim_page_id |-> INVALID_PAGE_ID, victim_pin_count |-> 0]

AllocatePage(b) == b.next_page_id

NewPage(b) ==
  LET t == TakeFrame(b)
  IN IF ~t.ok THEN NoPage(b, INVALID_PAGE_ID)
     ELSE InstallPage(b, t, AllocatePage(b), b.next_page_id + 1, FALSE)

FetchPage(b, page_id) ==
  IF page_id = INVALID_PAGE_ID THEN NoPage(b, page_id)
  ELSE IF page_id \in DOMAIN b.page_table
    THEN LET frame_id == b.page_table[page_id]
             replacer == SetEvictable(RecordAccess(b.replacer, frame_id), frame_id, FALSE)
         IN [b |-> [b EXCEPT !.replacer = replacer, !.pages[frame_id].pin_count = @ + 1],
             frame_id |-> frame_id, page_id |-> page_id, hit |-> TRUE, evicted |-> FALSE,
             victim_page_id |-> INVALID_PAGE_ID, victim_pin_count |-> 0]
  ELSE LET t == TakeFrame(b)
       IN IF ~t.ok THEN NoPage(b, page_id)
          ELSE InstallPage(b, t, page_id, b.next_page_id, TRUE)

\* UnpinPage: [b, ok]
UnpinPage(b, page_id, is_dirty) ==
  IF page_id = INVALID_PAGE_ID \/ page_id \notin DOMAIN b.page_table
  THEN [b |-> b, ok |-> FALSE]
  ELSE
    LET frame_id == b.page_table[page_id]
        b1 == [b EXCEPT !.pages[frame_id].is_dirty = is_dirty \/ @]
    IN IF b1.pages[frame_id].pin_count = 0 THEN [b |-> b1, ok |-> FALSE]
       ELSE LET b2 == [b1 EXCEPT !.pages[frame_id].pin_count = @ - 1]
            IN [b |-> IF b2.pages[frame_id].pin_count = 0
                      THEN [b2 EXCEPT !.replacer = SetEvictable(@, frame_id, TRUE)]
                      ELSE b2,
                ok |-> TRUE]

\* FlushPage: [b, ok]
FlushPage(b, page_id) ==
  IF page_id = INVALID_PAGE_ID \/ page_id \notin DOMAIN b.page_table
  THEN [b |-> b, ok |-> FALSE]
  ELSE [b |-> DiskWrite(b, b.page_table[page_id]), ok |-> TRUE]

RECURSIVE FlushAllPagesFrom(_, _)
FlushAllPagesFrom(b, current_size) ==
  IF current_size >= b.pool_size THEN b
  ELSE FlushAllPagesFrom(IF b.pages[current_size].page_id = INVALID_PAGE_ID THEN b
                         ELSE DiskWrite(b, current_size),
                         current_size + 1)

FlushAllPages(b) == FlushAllPagesFrom(b, 0)

\* BufferPoolManager::DeletePage: [b, ok]
BpmDeletePage(b, page_id) ==
  IF page_id = INVALID_PAGE_ID \/ page_id \notin DOMAIN b.page_table
  THEN [b |-> b, ok |-> TRUE]
  ELSE
    LET frame_id == b.page_table[page_id]
    IN IF b.pages[frame_id].pin_count > 0 THEN [b |-> b, ok |-> FALSE]
       ELSE [b |-> [b EXCEPT !.page_table = Without(@, page_id),
                             !.free_list = Append(@, frame_id),
                             !.replacer = ReplacerRemove(@, frame_id),
                             !.pages[frame_id] = PageInit],
             ok |-> TRUE]

(***************************************************************************)
(* Buffer pool manager: state machine                                      *)
(***************************************************************************)
\* A client writes into the data of a page it holds pinned.
WritePageData(b, page_id, data) == [b EXCEPT !.pages[b.page_table[page_id]].data = data]

\* What an UnpinPage found and returned: the page as it was before the call.
BPNotUnpinned ==
  [is_dirty |-> FALSE, ok |-> FALSE, mapped |-> FALSE, page |-> PageInit, evictable |-> FALSE]

BPUnpinned(page_id, is_dirty, ok) ==
  IF page_id \in DOMAIN bpm.page_table
  THEN [is_dirty |-> is_dirty, ok |-> ok, mapped |-> TRUE,
        page |-> bpm.pages[bpm.page_table[page_id]],
        evictable |-> bpm.replacer.evictable[bpm.page_table[page_id]]]
  ELSE [BPNotUnpinned EXCEPT !.is_dirty = is_dirty, !.ok = ok]

BPLast(op, res) ==
  [op |-> op, page_id |-> res.page_id, frame_id |-> res.frame_id, hit |-> res.hit,
   evicted |-> res.evicted, victim_page_id |-> res.victim_page_id,
   victim_pin_count |-> res.victim_pin_count, unpin |-> BPNotUnpinned]

BPInit ==
  /\ \E pool_size \in 1 .. MaxPoolSize, replacer_k \in 1 .. MaxReplacerK :
       bpm = BufferPoolManagerInit(pool_size, replacer_k)
  /\ bpHist = [written |-> EmptyMap, unflagged |-> {}, evicted |-> {}, ops |-> 0,
               last |-> BPLast("none", NoPage(<<>>, INVALID_PAGE_ID))]

\* The calling thread is not blocked inside the replacer and the run is short
\* enough.
BPReady == bpHist.ops < MaxBPOps /\ bpm.replacer.outcome # "relock"

BPStep(b, written, unflagged, evicted, last) ==
  /\ bpm' = b
  /\ bpHist' = [written |-> written, unflagged |-> unflagged, evicted |-> evicted,
                ops |-> bpHist.ops + 1, last |-> last]
  /\ UNCHANGED <<htVars, trVars, tsVars, pgVars, dsVars, lruVars, exVars>>

BPEvicted(res) ==
  IF res.evicted /\ res.victim_page_id \in DOMAIN bpHist.written
  THEN bpHist.evicted \cup {res.victim_page_id} ELSE bpHist.evicted

BPNewPage ==
  /\ BPReady
  /\ bpm.next_page_id < MaxPages
  /\ LET res == NewPage(bpm)
     IN BPStep(res.b, bpHist.written, bpHist.unflagged, BPEvicted(res), BPLast("new", res))

BPFetchPage(page_id) ==
  /\ BPReady
  /\ page_id < bpm.next_page_id
  /\ LET res == FetchPage(bpm, page_id)
     IN BPStep(res.b, bpHist.written, bpHist.unflagged, BPEvicted(res), BPLast("fetch", res))

BPWritePage(page_id, data) ==
  /\ BPReady
  /\ page_id \in DOMAIN bpm.page_table
  /\ bpm.pages[bpm.page_table[page_id]].pin_count > 0
  /\ BPStep(WritePageData(bpm, page_id, data),
            [p \in DOMAIN bpHist.written \cup {page_id} |->
               IF p = page_id THEN data ELSE bpHist.written[p]],
            bpHist.unflagged \cup {page_id}, bpHist.evicted,
            BPLast("write", NoPage(bpm, page_id)))

\* A client that wrote into the page and holds its last pin passes is_dirty = true.
BPUnpinPage(page_id, is_dirty) ==
  /\ BPReady
  /\ page_id < bpm.next_page_id
  /\ (page_id \in bpHist.unflagged /\ bpm.pages[bpm.page_table[page_id]].pin_count = 1)
       => is_dirty
  /\ LET res == UnpinPage(bpm, page_id, is_dirty)
     IN BPStep(res.b, bpHist.written,
               IF is_dirty THEN bpHist.unflagged \ {page_id} ELSE bpHist.unflagged,
               bpHist.evicted,
               [BPLast("unpin", NoPage(bpm, page_id)) EXCEPT !.unpin = BPUnpinned(page_id, is_dirty, res.ok)])

BPFlushPage(page_id) ==
  /\ BPReady
  /\ page_id < bpm.next_page_id
  /\ BPStep(FlushPage(bpm, page_id).b, bpHist.written, bpHist.unflagged, bpHist.evicted,
            BPLast("flush", NoPage(bpm, page_id)))

BPFlushAllPages ==
  /\ BPReady
  /\ BPStep(FlushAllPages(bpm), bpHist.written, bpHist.unflagged, bpHist.evicted,
            BPLast("flush_all", NoPage(bpm, INVALID_PAGE_ID)))

BPDeletePage(page_id) ==
  /\ BPReady
  /\ page_id < bpm.next_page_id
  /\ LET res == BpmDeletePage(bpm, page_id)
     IN BPStep(res.b,
               IF res.ok THEN Without(bpHist.written, page_id) ELSE bpHist.written,
               IF res.ok THEN bpHist.unflagged \ {page_id} ELSE bpHist.unflagged,
               IF res.ok THEN bpHist.evicted \ {page_id} ELSE bpHist.evicted,
               BPLast("delete", NoPage(bpm, page_id)))

InitBP == BPInit /\ HTIdle /\ TRIdle /\ TSIdle /\ PGIdle /\ DSIdle /\ LRUIdle /\ EXIdle

NextBP ==
  \/ BPNewPage
  \/ \E page_id \in PageIds : BPFetchPage(page_id)
  \/ \E page_id \in PageIds, data \in PageData : BPWritePage(page_id, data)
  \/ \E page_id \in PageIds, is_dirty \in BOOLEAN : BPUnpinPage(page_id, is_dirty)
  \/ \E page_id \in PageIds : BPFlushPage(page_id)
  \/ BPFlushAllPages
  \/ \E page_id \in PageIds : BPDeletePage(page_id)

SpecBP == InitBP /\ [][NextBP]_vars

(***************************************************************************)
(* Claims about the buffer pool                                            *)
(***************************************************************************)
\* C2: a fetch_page of a page that was written to while pinned, unpinned as
\* dirty and possibly evicted since returns a frame holding the content last
\* written to the page.
C2_FetchReturnsLastWritten ==
  (bpHist.last.op = "fetch" /\ bpHist.last.frame_id # -1
     /\ bpHist.last.page_id \in DOMAIN bpHist.written)
    => bpm.pages[bpHist.last.frame_id].data = bpHist.written[bpHist.last.page_id]

\* C2 (witness): in a pool of one frame, a fetch brought back from disk a page
\* that had been written to and then evicted.
C2_Witness ==
  /\ bpHist.last.op = "fetch" /\ bpHist.last.frame_id # -1 /\ ~bpHist.last.hit
  /\ bpHist.last.evicted
  /\ bpHist.last.page_id \in bpHist.evicted
  /\ bpm.pool_size = 1
  /\ bpm.pages[bpHist.last.frame_id].data \in PageData

\* C3: between operations no frame is pinned and evictable in the replacer,
\* and the frame NewPage or FetchPage evicted was not pinned.
C3_PinnedNeverEvictable ==
  /\ \A f \in DOMAIN bpm.pages :
       bpm.pages[f].pin_count > 0 => ~bpm.replacer.evictable[f]
  /\ bpHist.last.evicted => bpHist.last.victim_pin_count = 0

\* C3 (witness): a frame was evicted while another frame, tracked by the
\* replacer, stayed pinned.
C3_Witness ==
  /\ bpHist.last.evicted
  /\ \E f \in DOMAIN bpm.pages :
       /\ f # bpHist.last.frame_id
       /\ bpm.pages[f].pin_count > 0
       /\ bpm.replacer.recorded_cnt[f] > 0

\* The frames on the free list.
FreeFrames == {bpm.free_list[i] : i \in 1 .. Len(bpm.free_list)}

\* C18: every page id of the page table maps to one frame of the pool, which
\* holds that page; no two page ids map to the same frame; and no frame of
\* the free list is mapped or listed twice.
C18_PageTableIsInjective ==
  /\ \A p \in DOMAIN bpm.page_table :
       /\ bpm.page_table[p] \in DOMAIN bpm.pages
       /\ bpm.pages[bpm.page_table[p]].page_id = p
  /\ \A p, q \in DOMAIN bpm.page_table : bpm.page_table[p] = bpm.page_table[q] => p = q
  /\ \A p \in DOMAIN bpm.page_table : bpm.page_table[p] \notin FreeFrames
  /\ Cardinality(FreeFrames) = Len(bpm.free_list)

\* C18 (witness): a DeletePage has put a frame back on the free list after
\* an eviction, while another page is still mapped.
C18_Witness ==
  /\ bpHist.last.op = "delete" /\ bpm.free_list # <<>>
  /\ bpHist.evicted # {}
  /\ DOMAIN bpm.page_table # {}

\* C19: an UnpinPage of an unmapped page, or of a page whose pin count is 0,
\* returns false and leaves the page's dirty flag, pin count and evictability
\* as they were.
C19_FailedUnpinChangesNothing ==
  (/\ bpHist.last.op = "unpin"
   /\ (~bpHist.last.unpin.mapped \/ bpHist.last.unpin.page.pin_count = 0)) =>
    /\ ~bpHist.last.unpin.ok
    /\ (bpHist.last.page_id \in DOMAIN bpm.page_table) = bpHist.last.unpin.mapped
    /\ bpHist.last.unpin.mapped =>
         /\ bpm.pages[bpm.page_table[bpHist.last.page_id]] = bpHist.last.unpin.page
         /\ bpm.replacer.evictable[bpm.page_table[bpHist.last.page_id]]
              = bpHist.last.unpin.evictable

(***************************************************************************)
(* Copy-on-write trie                                                      *)
(***************************************************************************)
\* Keys are strings of chars; NUL is the char '\0'.
NUL == 0
MaxKeyLen == 2
MaxTrieOps == 3
TrieChars == {NUL, 1, 2}
TrieTypes == {"uint32_t", "std::string"}
TrieVals == {1, 2}

RECURSIVE KeysUpTo(_)
KeysUpTo(n) ==
  IF n = 0 THEN {<<>>}
  ELSE LET shorter == KeysUpTo(n - 1)
       IN shorter \cup {Append(k, c) : k \in {s \in shorter : Len(s) = n - 1}, c \in TrieChars}

TrieKeys == KeysUpTo(MaxKeyLen)

\* A null shared_ptr<const TrieNode>, and a null const T *.
NullNode == [null |-> TRUE]
NoValue == [obj |-> -1, type |-> "none", v |-> 0]

\* Nodes carry the identity of the object (id); a value is the object a
\* shared_ptr<T> points to (obj), its type T and its content.
TrieNode(children, id) ==
  [null |-> FALSE, id |-> id, is_value_node |-> FALSE, children |-> children, value |-> NoValue]

TrieNodeWithValue(children, value, id) ==
  [null |-> FALSE, id |-> id, is_value_node |-> TRUE, children |-> children, value |-> value]

\* A variant that hands out the node itself instead of a copy.
CloneInPlace(node, id) == node

\* Clone: a new node object with the same children and the same value pointer.
Clone(node, id) == [node EXCEPT !.id = id]

\* The node a key leads to, NullNode if the walk falls off the trie.
RECURSIVE Walk(_, _)
Walk(cur, key) ==
  IF cur.null THEN NullNode
  ELSE IF key = <<>> THEN cur
  ELSE IF Head(key) \in DOMAIN cur.children THEN Walk(cur.children[Head(key)], Tail(key))
  ELSE NullNode

\* Trie::Get<T>: the value, NoValue for nullptr.
Get(root, key, T) ==
  LET cur == Walk(root, key)
  IN IF ~cur.null /\ cur.is_value_node /\ cur.value.type = T THEN cur.value ELSE NoValue

CreateNodeWithValueAndCopyChild(value_ptr, old_node, id) ==
  TrieNodeWithValue(IF old_node.null THEN EmptyMap ELSE old_node.children, value_ptr, id)

\* A variant that copies every other child instead of sharing it.
CopyChildrenDeep(cur_new, cur_old, c, replacement) ==
  [k \in DOMAIN cur_new.children \cup DOMAIN cur_old.children |->
     IF k = c /\ k \in DOMAIN cur_old.children THEN replacement
     ELSE IF k \in DOMAIN cur_old.children
       THEN [cur_old.children[k] EXCEPT !.id = 100 + cur_old.children[k].id]
     ELSE cur_new.children[k]]

\* The inner loops of Put over cur_old->children_: the child named c is
\* replaced by replacement, every other child is emplaced.
CopyChildren(cur_new, cur_old, c, replacement) ==
  [k \in DOMAIN cur_new.children \cup DOMAIN cur_old.children |->
     IF k = c /\ k \in DOMAIN cur_old.children THEN replacement
     ELSE IF k \in DOMAIN cur_new.children THEN cur_new.children[k]
     ELSE cur_old.children[k]]

SetChild(children, c, node) ==
  [k \in DOMAIN children \cup {c} |-> IF k = c THEN node ELSE children[k]]

\* The walk of Put along key_head and the attachment of the value node under
\* key_back; the result is cur_new with its subtree rebuilt. Nodes made at
\* depth d get the identity id + d.
RECURSIVE PutWalk(_, _, _, _, _, _)
PutWalk(cur_old, cur_new, key_head, key_back, value_ptr, id) ==
  IF key_head = <<>>
  THEN IF ~cur_old.null
       THEN LET exist == key_back \in DOMAIN cur_old.children
                copied ==
                  CopyChildren(cur_new, cur_old, key_back,
                    IF exist
                    THEN CreateNodeWithValueAndCopyChild(value_ptr, cur_old.children[key_back], id)
                    ELSE NullNode)
            IN [cur_new EXCEPT !.children =
                  IF exist THEN copied
                  ELSE SetChild(copied, key_back, TrieNodeWithValue(EmptyMap, value_ptr, id))]
       ELSE [cur_new EXCEPT !.children =
               SetChild(@, key_back, TrieNodeWithValue(EmptyMap, value_ptr, id))]
  ELSE
    LET c == Head(key_head)
        exist == ~cur_old.null /\ c \in DOMAIN cur_old.children
        copied == IF cur_old.null THEN cur_new.children
                  ELSE CopyChildren(cur_new, cur_old, c,
                         IF exist THEN Clone(cur_old.children[c], id) ELSE NullNode)
        children == IF exist THEN copied ELSE SetChild(copied, c, TrieNode(EmptyMap, id))
        next_old == IF exist THEN cur_old.children[c] ELSE NullNode
    IN [cur_new EXCEPT !.children =
          SetChild(children, c,
                   PutWalk(next_old, children[c], Tail(key_head), key_back, value_ptr, id + 1))]

\* Trie::Put: the root of the new trie.
Put(root, key, value_ptr, id) ==
  LET key_head == SubSeq(key, 1, Len(key) - 1)
      key_back == IF key = <<>> THEN NUL ELSE key[Len(key)]
      cur_new == IF root.null THEN TrieNode(EmptyMap, id) ELSE Clone(root, id)
  IN IF key_back = NUL
     THEN CreateNodeWithValueAndCopyChild(value_ptr, Walk(root, key_head), id + Len(key) + 1)
     ELSE PutWalk(root, cur_new, key_head, key_back, value_ptr, id + 1)

\* A variant that leaves the node a value node.
DemoteKeepingValue(node, id) == Clone(node, id)

\* The TrieNode that Remove puts in the place of a value node that has
\* children: a new node with the same children and no value.
Demote(node, id) == TrieNode(node.children, id)

\* The walk of Remove: [found, erased, node]; erased says that the node was
\* taken out of its parent.
RECURSIVE RemoveWalk(_, _, _)
RemoveWalk(cur_new, key, id) ==
  IF key = <<>>
  THEN IF ~cur_new.is_value_node THEN [found |-> FALSE, erased |-> FALSE, node |-> cur_new]
       ELSE IF DOMAIN cur_new.children # {}
         THEN [found |-> TRUE, erased |-> FALSE, node |-> Demote(cur_new, id + 1)]
       ELSE [found |-> TRUE, erased |-> TRUE, node |-> NullNode]
  ELSE
    LET c == Head(key) IN
    IF c \notin DOMAIN cur_new.children
    THEN [found |-> FALSE, erased |-> FALSE, node |-> cur_new]
    ELSE
      LET sub == RemoveWalk(Clone(cur_new.children[c], id + 1), Tail(key), id + 1)
          rest == [k \in DOMAIN cur_new.children \ {c} |-> cur_new.children[k]]
      IN IF ~sub.found THEN [found |-> FALSE, erased |-> FALSE, node |-> cur_new]
         ELSE IF ~sub.erased
           THEN [found |-> TRUE, erased |-> FALSE,
                 node |-> [cur_new EXCEPT !.children = SetChild(@, c, sub.node)]]
         ELSE IF ~cur_new.is_value_node /\ DOMAIN rest = {}
           THEN [found |-> TRUE, erased |-> TRUE, node |-> NullNode]
         ELSE [found |-> TRUE, erased |-> FALSE, node |-> [cur_new EXCEPT !.children = rest]]

\* A variant that leaves an empty root node where the last value went.
TrieRemoveKeepingRoot(root, key, id) ==
  IF root.null THEN root
  ELSE LET res == RemoveWalk(Clone(root, id), key, id)
       IN IF ~res.found THEN root
          ELSE IF res.erased THEN TrieNode(EmptyMap, id)
          ELSE res.node

\* Trie::Remove: the root of the new trie, the old root itself if the key has
\* no value.
TrieRemove(root, key, id) ==
  IF root.null THEN root
  ELSE LET res == RemoveWalk(Clone(root, id), key, id)
       IN IF ~res.found THEN root
          ELSE IF res.erased THEN NullNode
          ELSE res.node

\* Node objects one call may allocate.
NodesPerCall(key) == Len(key) + 2

(***************************************************************************)
(* Copy-on-write trie: state machine                                       *)
(***************************************************************************)
TRLast(op, key, type, value, result, prev) ==
  [op |-> op, key |-> key, type |-> type, value |-> value, result |-> result, prev |-> prev]

\* The call before the one being made now.
TRBefore == [op |-> trHist.last.op, key |-> trHist.last.key]

TRInit ==
  /\ trie = [root |-> NullNode, next_id |-> 1, next_obj |-> 1]
  /\ trHist = [ops |-> 0, last |-> TRLast("none", <<>>, "none", NoValue, NoValue, NullNode),
               before |-> [op |-> "none", key |-> <<>>]]

\* trie = trie.Put<T>(key, v)
TRPut(key, T, v) ==
  /\ trHist.ops < MaxTrieOps
  /\ LET value_ptr == [obj |-> trie.next_obj, type |-> T, v |-> v]
         new_root == Put(trie.root, key, value_ptr, trie.next_id)
     IN /\ trie' = [root |-> new_root, next_id |-> trie.next_id + NodesPerCall(key),
                    next_obj |-> trie.next_obj + 1]
        /\ trHist' = [ops |-> trHist.ops + 1,
                      last |-> TRLast("put", key, T, value_ptr, NoValue, trie.root),
                      before |-> TRBefore]
  /\ UNCHANGED <<htVars, bpVars, tsVars, pgVars, dsVars, lruVars, exVars>>

\* trie = trie.Remove(key)
TRRemove(key) ==
  /\ trHist.ops < MaxTrieOps
  /\ LET new_root == TrieRemove(trie.root, key, trie.next_id)
     IN /\ trie' = [trie EXCEPT !.root = new_root, !.next_id = @ + NodesPerCall(key)]
        /\ trHist' = [ops |-> trHist.ops + 1,
                      last |-> TRLast("remove", key, "none", NoValue, NoValue, trie.root),
                      before |-> TRBefore]
  /\ UNCHANGED <<htVars, bpVars, tsVars, pgVars, dsVars, lruVars, exVars>>

\* trie.Get<T>(key)
TRGet(key, T) ==
  /\ trHist.ops < MaxTrieOps
  /\ trHist' = [ops |-> trHist.ops + 1,
                last |-> TRLast("get", key, T, NoValue, Get(trie.root, key, T), trie.root),
                before |-> TRBefore]
  /\ UNCHANGED <<trie, htVars, bpVars, tsVars, pgVars, dsVars, lruVars, exVars>>

InitTR == TRInit /\ HTIdle /\ BPIdle /\ TSIdle /\ PGIdle /\ DSIdle /\ LRUIdle /\ EXIdle

NextTR ==
  \/ \E key \in TrieKeys, T \in TrieTypes, v \in TrieVals : TRPut(key, T, v)
  \/ \E key \in TrieKeys : TRRemove(key)
  \/ \E key \in TrieKeys, T \in TrieTypes : TRGet(key, T)

SpecTR == InitTR /\ [][NextTR]_vars

\* Runs of Put and Remove alone, over the keys of two chars, one of them NUL.
RECURSIVE KeysOver(_, _)
KeysOver(chars, n) ==
  IF n = 0 THEN {<<>>}
  ELSE LET shorter == KeysOver(chars, n - 1)
       IN shorter \cup {Append(k, c) : k \in {s \in shorter : Len(s) = n - 1}, c \in chars}

EditKeys == KeysOver({NUL, 1}, MaxKeyLen)

NextTREdit ==
  \/ \E key \in EditKeys : TRPut(key, "uint32_t", 1)
  \/ \E key \in EditKeys : TRRemove(key)

SpecTREdit == InitTR /\ [][NextTREdit]_vars

(***************************************************************************)
(* Claims about the trie                                                   *)
(***************************************************************************)
\* C6: right after T.put(k, v), for any key k and value v, get(k) on the new
\* trie returns v.
C6_GetAfterPut ==
  trHist.last.op = "put"
    => Get(trie.root, trHist.last.key, trHist.last.type) = trHist.last.value

\* The node objects reachable from a root, and the identities of them.
RECURSIVE NodesOf(_)
NodesOf(node) ==
  IF node.null THEN {}
  ELSE {node} \cup UNION {NodesOf(node.children[c]) : c \in DOMAIN node.children}

NodeIds(root) == {n.id : n \in NodesOf(root)}

\* The nodes the walk from a root along a key visits, the root included.
RECURSIVE PathNodes(_, _)
PathNodes(cur, key) ==
  IF cur.null THEN {}
  ELSE IF key = <<>> THEN {cur}
  ELSE IF Head(key) \in DOMAIN cur.children
    THEN {cur} \cup PathNodes(cur.children[Head(key)], Tail(key))
  ELSE {cur}

\* C24: right after T.put(k, v).remove(k), for any trie T, key k and value
\* v, get(k) on the resulting trie returns nullptr for every type.
C24_GetAfterPutRemove ==
  (trHist.last.op = "remove" /\ trHist.before.op = "put"
     /\ trHist.before.key = trHist.last.key) =>
    \A T \in TrieTypes : Get(trie.root, trHist.last.key, T) = NoValue

\* C25: a put or a remove leaves the trie it was called on as it was: no
\* node object reachable from the old root has changed (a node object of the
\* old trie that the new trie reaches has the children and the value it had),
\* so get on the old trie returns for every key what it returned before.
C25_SourceTrieUntouched ==
  trHist.last.op \in {"put", "remove"} =>
    \A n \in NodesOf(trHist.last.prev), m \in NodesOf(trie.root) : m.id = n.id => m = n

\* C26: after T' = T.put(k, v), every node of T' that the walk from the root
\* of T' along k does not visit is a node object of T, unchanged.
C26_PutSharesUntouchedNodes ==
  trHist.last.op = "put" =>
    \A m \in NodesOf(trie.root) \ PathNodes(trie.root, trHist.last.key) :
      m \in NodesOf(trHist.last.prev)

\* C27: every node reachable from the root is a value node or has at least
\* one child.
C27_NoEmptyInternalNode ==
  \A n \in NodesOf(trie.root) : n.is_value_node \/ DOMAIN n.children # {}

\* A remove has taken out the value the put before it stored under a key
\* that leads to a node with children.
C24_Witness ==
  /\ trHist.last.op = "remove" /\ trHist.before.op = "put"
  /\ trHist.before.key = trHist.last.key
  /\ Get(trHist.last.prev, trHist.last.key, "uint32_t") # NoValue
  /\ ~Walk(trie.root, trHist.last.key).null

\* A put or a remove has made a new trie that shares nodes with the old one.
C25_Witness ==
  /\ trHist.last.op \in {"put", "remove"}
  /\ trie.root # trHist.last.prev
  /\ ~trie.root.null
  /\ NodeIds(trie.root) \cap NodeIds(trHist.last.prev) # {}
  /\ NodeIds(trHist.last.prev) \ NodeIds(trie.root) # {}

\* A put into a trie that had a node on the key's path and a node off it.
C26_Witness ==
  /\ trHist.last.op = "put"
  /\ Len(trHist.last.key) = MaxKeyLen
  /\ NodesOf(trie.root) \ PathNodes(trie.root, trHist.last.key) # {}
  /\ Cardinality(PathNodes(trHist.last.prev, trHist.last.key)) > 1

\* A remove has pruned a node that was left without value and children.
C27_Witness ==
  /\ trHist.last.op = "remove"
  /\ ~trie.root.null
  /\ Cardinality(NodesOf(trie.root)) + 2 <= Cardinality(NodesOf(trHist.last.prev))

\* C37: a put or a remove of key k changes no other key: for every key k'
\* other than k, prefixes and extensions of k included, get(k') on the new
\* trie returns what get(k') returned on the trie the call was made on.
C37_PutRemoveKeepOtherKeys ==
  trHist.last.op \in {"put", "remove"} =>
    \A other \in TrieKeys \ {trHist.last.key}, T \in TrieTypes :
      Get(trie.root, other, T) = Get(trHist.last.prev, other, T)

(***************************************************************************)
(* Trie store                                                              *)
(***************************************************************************)
MaxThreads == 2
MaxTSCalls == 3
MaxGuards == 2
NoThread == 0
Threads == 1 .. MaxThreads
TSKeys == {<<1>>, <<1, 2>>}
TSPutTypes == {"uint32_t"}

\* A value object whose last shared_ptr is gone.
Freed == [type |-> "freed", v |-> 0]

\* The value objects a trie keeps alive.
RECURSIVE ObjsOf(_)
ObjsOf(node) ==
  IF node.null THEN {}
  ELSE (IF node.is_value_node THEN {node.value.obj} ELSE {})
         \cup UNION {ObjsOf(node.children[c]) : c \in DOMAIN node.children}

\* Destruction of the objects no shared_ptr refers to any more.
Collect(objs, roots) ==
  [o \in DOMAIN objs |-> IF o \in UNION {ObjsOf(r) : r \in roots} THEN objs[o] ELSE Freed]

\* ValueGuard: a copy of the root and a reference to the value object.
ValueGuardWithoutRoot(root, value) == [root_ |-> NullNode, value_ |-> value.obj]
ValueGuard(root, value) == [root_ |-> root, value_ |-> value.obj]

TrieStoreInit == [root_ |-> NullNode, root_lock_ |-> NoThread, write_lock_ |-> NoThread]

\* std::unique_lock<std::mutex> write_lock(write_lock_): [ok, s], ok = FALSE
\* while the caller has to wait.
LockWriteSkipped(s, t) == [ok |-> TRUE, s |-> s]
LockWrite(s, t) == [ok |-> s.write_lock_ = NoThread, s |-> [s EXCEPT !.write_lock_ = t]]

UnlockWrite(s, t) == IF s.write_lock_ = t THEN [s EXCEPT !.write_lock_ = NoThread] ELSE s

\* A variant in which whoever holds the writer lock holds the root lock too.
LockRootBehindWriter(s, t) ==
  [ok |-> s.root_lock_ = NoThread /\ s.write_lock_ \in {NoThread, t},
   s |-> [s EXCEPT !.root_lock_ = t]]

\* std::scoped_lock<std::mutex> lock(root_lock_) and the end of its block.
LockRoot(s, t) == [ok |-> s.root_lock_ = NoThread, s |-> [s EXCEPT !.root_lock_ = t]]

UnlockRoot(s, t) == IF s.root_lock_ = t THEN [s EXCEPT !.root_lock_ = NoThread] ELSE s

\* during is history, kept for a Get: the threads that were computing a new
\* trie when the Get was called and have not published it since.
ThreadIdle ==
  [pc |-> "idle", op |-> "none", key |-> <<>>, type |-> "none", v |-> 0,
   root |-> NullNode, new_root |-> NullNode, during |-> {}]

LiveRoots(s, threads, guards) ==
  {s.root_} \cup {threads[t].root : t \in DOMAIN threads}
            \cup {threads[t].new_root : t \in DOMAIN threads}
            \cup {guards[i].guard.root_ : i \in DOMAIN guards}

TSInit ==
  /\ store = TrieStoreInit
  /\ tsHeap = [objs |-> EmptyMap, next_obj |-> 1, next_id |-> 1]
  /\ tsThreads = [t \in Threads |-> ThreadIdle]
  /\ tsGuards = <<>>
  /\ tsHist = [done |-> <<>>, calls |-> 0, overlaps |-> 0]

TSStep(store2, heap2, threads2, guards2, hist2) ==
  /\ store' = store2
  /\ tsThreads' = threads2
  /\ tsGuards' = guards2
  /\ tsHeap' = [heap2 EXCEPT !.objs = Collect(@, LiveRoots(store2, threads2, guards2))]
  /\ tsHist' = hist2
  /\ UNCHANGED <<htVars, bpVars, trVars, pgVars, dsVars, lruVars, exVars>>

TSGoto(t, pc) == [tsThreads EXCEPT ![t].pc = pc]

WriteInProgress(t) == tsThreads[t].op \in {"put", "remove"}

TSDuring(op) ==
  IF op = "get" THEN {u \in Threads : tsThreads[u].pc = "compute"} ELSE {}

TSBegin(t, op, key, T, v, pc) ==
  /\ tsThreads[t].pc = "idle"
  /\ tsHist.calls < MaxTSCalls
  /\ TSStep(store, tsHeap,
            [tsThreads EXCEPT ![t] = [ThreadIdle EXCEPT !.pc = pc, !.op = op, !.key = key,
                                                      !.type = T, !.v = v,
                                                      !.during = TSDuring(op)]],
            tsGuards,
            [tsHist EXCEPT !.calls = @ + 1,
                           !.overlaps = IF op # "get" /\ \E u \in Threads \ {t} : WriteInProgress(u)
                                        THEN @ + 1 ELSE @])

\* A thread calls TrieStore::Put<T>(key, v).
TSBeginPut(t, key, T, v) == TSBegin(t, "put", key, T, v, "write_lock")

\* A thread calls TrieStore::Remove(key).
TSBeginRemove(t, key) == TSBegin(t, "remove", key, "none", 0, "write_lock")

\* A thread calls TrieStore::Get<T>(key).
TSBeginGet(t, key, T) ==
  /\ Len(tsGuards) < MaxGuards
  /\ TSBegin(t, "get", key, T, 0, "root_lock_get")

\* Put / Remove: the writer lock is taken.
TSLockWrite(t) ==
  /\ tsThreads[t].pc = "write_lock"
  /\ LET l == LockWrite(store, t)
     IN /\ l.ok
        /\ TSStep(l.s, tsHeap, TSGoto(t, "root_lock_copy"), tsGuards, tsHist)

\* The root lock is taken, by a reader or by the writer before its copy of
\* the root or before publishing.
TSLockRoot(t) ==
  /\ tsThreads[t].pc \in {"root_lock_get", "root_lock_copy", "root_lock_publish"}
  /\ LET l == LockRoot(store, t)
     IN /\ l.ok
        /\ TSStep(l.s, tsHeap,
                  TSGoto(t, CASE tsThreads[t].pc = "root_lock_get" -> "copy_get"
                              [] tsThreads[t].pc = "root_lock_copy" -> "copy"
                              [] OTHER -> "publish"),
                  tsGuards, tsHist)

\* root = root_ under the root lock, which is then released.
TSCopyRoot(t) ==
  /\ tsThreads[t].pc \in {"copy_get", "copy"}
  /\ TSStep(UnlockRoot(store, t), tsHeap,
            [tsThreads EXCEPT ![t].root = store.root_,
                              ![t].pc = IF @ = "copy_get" THEN "lookup" ELSE "compute"],
            tsGuards, tsHist)

\* new_root = root_ptr->Put(key, value) or root_ptr->Remove(key), outside
\* the root lock.
TSCompute(t) ==
  /\ tsThreads[t].pc = "compute"
  /\ LET th == tsThreads[t]
         value_ptr == [obj |-> tsHeap.next_obj, type |-> th.type, v |-> th.v]
     IN IF th.op = "put"
        THEN TSStep(store,
                    [objs |-> tsHeap.objs @@ (tsHeap.next_obj :> [type |-> th.type, v |-> th.v]),
                     next_obj |-> tsHeap.next_obj + 1,
                     next_id |-> tsHeap.next_id + NodesPerCall(th.key)],
                    [tsThreads EXCEPT ![t].new_root = Put(th.root, th.key, value_ptr, tsHeap.next_id),
                                      ![t].pc = "root_lock_publish"],
                    tsGuards, tsHist)
        ELSE TSStep(store,
                    [tsHeap EXCEPT !.next_id = @ + NodesPerCall(th.key)],
                    [tsThreads EXCEPT ![t].new_root = TrieRemove(th.root, th.key, tsHeap.next_id),
                                      ![t].pc = "root_lock_publish"],
                    tsGuards, tsHist)

\* root_ = new_root under the root lock, which is then released.
TSPublish(t) ==
  /\ tsThreads[t].pc = "publish"
  /\ TSStep(UnlockRoot([store EXCEPT !.root_ = tsThreads[t].new_root], t), tsHeap,
            [u \in Threads |-> IF u = t THEN [tsThreads[t] EXCEPT !.pc = "return"]
                               ELSE [tsThreads[u] EXCEPT !.during = @ \ {t}]],
            tsGuards, tsHist)

\* Put / Remove return: the locals are destroyed and the writer lock released.
TSReturn(t) ==
  /\ tsThreads[t].pc = "return"
  /\ TSStep(UnlockWrite(store, t), tsHeap,
            [tsThreads EXCEPT ![t] = ThreadIdle], tsGuards,
            [tsHist EXCEPT !.done = Append(@, [op |-> tsThreads[t].op, key |-> tsThreads[t].key,
                                               type |-> tsThreads[t].type, v |-> tsThreads[t].v])])

\* Get: the lookup in the copied root; a found value is returned in a
\* ValueGuard, which the caller keeps.
TSLookup(t) ==
  /\ tsThreads[t].pc = "lookup"
  /\ LET th == tsThreads[t]
         value == Get(th.root, th.key, th.type)
     IN TSStep(store, tsHeap, [tsThreads EXCEPT ![t] = ThreadIdle],
               IF value # NoValue
               THEN Append(tsGuards, [guard |-> ValueGuard(th.root, value), key |-> th.key,
                                      created |-> [type |-> value.type, v |-> value.v]])
               ELSE tsGuards,
               tsHist)

\* A caller destroys a ValueGuard it holds.
TSDropGuard(i) ==
  /\ i \in DOMAIN tsGuards
  /\ TSStep(store, tsHeap, tsThreads,
            SubSeq(tsGuards, 1, i - 1) \o SubSeq(tsGuards, i + 1, Len(tsGuards)), tsHist)

InitTS == TSInit /\ HTIdle /\ BPIdle /\ TRIdle /\ PGIdle /\ DSIdle /\ LRUIdle /\ EXIdle

NextTS ==
  \/ \E t \in Threads, key \in TSKeys, T \in TSPutTypes, v \in TrieVals : TSBeginPut(t, key, T, v)
  \/ \E t \in Threads, key \in TSKeys : TSBeginRemove(t, key)
  \/ \E t \in Threads, key \in TSKeys, T \in TrieTypes : TSBeginGet(t, key, T)
  \/ \E t \in Threads : TSLockWrite(t)
  \/ \E t \in Threads : TSLockRoot(t)
  \/ \E t \in Threads : TSCopyRoot(t)
  \/ \E t \in Threads : TSCompute(t)
  \/ \E t \in Threads : TSPublish(t)
  \/ \E t \in Threads : TSReturn(t)
  \/ \E t \in Threads : TSLookup(t)
  \/ \E i \in 1 .. MaxGuards : TSDropGuard(i)

SpecTS == InitTS /\ [][NextTS]_vars

(***************************************************************************)
(* Claims about the trie store                                             *)
(***************************************************************************)
\* C7: the value object every held ValueGuard refers to is alive and holds
\* the value the guard was created with, whatever writes came afterwards.
C7_GuardKeepsValue ==
  \A i \in DOMAIN tsGuards :
    tsHeap.objs[tsGuards[i].guard.value_] = tsGuards[i].created

\* C7 (witness): a guard is held for a key whose value has since been removed
\* from the store, and no version but the guard's still holds the object.
C7_Witness ==
  /\ \A t \in Threads : tsThreads[t].pc = "idle"
  /\ \E i \in DOMAIN tsGuards :
       /\ Get(store.root_, tsGuards[i].key, tsGuards[i].created.type) = NoValue
       /\ tsGuards[i].guard.value_ \notin ObjsOf(store.root_)
       /\ \E j \in DOMAIN tsHist.done :
            tsHist.done[j].op = "remove" /\ tsHist.done[j].key = tsGuards[i].key

\* The key/value pairs of a trie.
RECURSIVE TrieContent(_, _)
TrieContent(node, prefix) ==
  IF node.null THEN {}
  ELSE (IF node.is_value_node THEN {<<prefix, node.value.type, node.value.v>>} ELSE {})
         \cup UNION {TrieContent(node.children[c], Append(prefix, c)) : c \in DOMAIN node.children}

\* The trie left by the writes of done applied one at a time in the given order.
RECURSIVE Replay(_, _, _, _)
Replay(done, order, i, root) ==
  IF i > Len(done) THEN root
  ELSE LET w == done[order[i]]
       IN Replay(done, order, i + 1,
                 IF w.op = "put"
                 THEN Put(root, w.key, [obj |-> 0, type |-> w.type, v |-> w.v], 0)
                 ELSE TrieRemove(root, w.key, 0))

Orders(n) == {f \in [1 .. n -> 1 .. n] : \A a, b \in 1 .. n : f[a] = f[b] => a = b}

\* C8: once every call has returned, the content of the store is what the
\* returned puts and removes leave when applied one at a time in some order.
C8_WritesTotallyOrdered ==
  (\A t \in Threads : tsThreads[t].pc = "idle") =>
    \E order \in Orders(Len(tsHist.done)) :
      TrieContent(store.root_, <<>>) = TrieContent(Replay(tsHist.done, order, 1, NullNode), <<>>)

\* C8 (witness): two writes that overlapped in time have both returned and
\* both left their key in the store.
C8_Witness ==
  /\ \A t \in Threads : tsThreads[t].pc = "idle"
  /\ tsHist.overlaps > 0
  /\ Len(tsHist.done) >= 2
  /\ \E a, b \in TrieContent(store.root_, <<>>) : a[1] # b[1]

\* A Get in progress waits for nothing but root_lock_ (its other steps take
\* no lock), and root_lock_ is refused to it only while another thread is
\* inside one of the blocks that copy or publish the root: never by a thread
\* that holds write_lock_ and is computing its new trie, or waits for
\* write_lock_.
GetWaitsForRootBlockOnly ==
  \A t \in Threads :
    tsThreads[t].op = "get" =>
      /\ tsThreads[t].pc \in {"root_lock_get", "copy_get", "lookup"}
      /\ store.write_lock_ # t
      /\ tsThreads[t].pc = "root_lock_get" =>
           \/ LockRoot(store, t).ok
           \/ \E u \in Threads \ {t} :
                store.root_lock_ = u /\ tsThreads[u].pc \in {"copy_get", "copy", "publish"}

\* A Get called while a writer was computing its new trie, and about to look
\* its key up before that writer has published, holds the root that is
\* published now, which is the root the writer started from.
GetUsesPublishedRoot ==
  \A t \in Threads, u \in Threads :
    (tsThreads[t].op = "get" /\ tsThreads[t].pc = "lookup" /\ u \in tsThreads[t].during
       /\ tsThreads[u].pc \in {"compute", "root_lock_publish"}) =>
      /\ tsThreads[t].root = store.root_
      /\ tsThreads[t].root = tsThreads[u].root

\* C28: a Get never waits for write_lock_: while a Put or a Remove computes
\* its new trie the Get can take every one of its steps, and it looks the
\* key up in the last published root.
C28_GetNeverWaitsForWriter == GetWaitsForRootBlockOnly /\ GetUsesPublishedRoot

\* A Get called while a writer was computing its new trie has copied the
\* root and has only its lookup left, and that writer is still computing.
C28_Witness ==
  \E t \in Threads, u \in Threads :
    /\ tsThreads[t].op = "get" /\ tsThreads[t].pc = "lookup"
    /\ u \in tsThreads[t].during
    /\ tsThreads[u].pc = "compute" /\ store.write_lock_ = u
    /\ tsThreads[t].root = store.root_
    /\ ~store.root_.null

(***************************************************************************)
(* Page guards                                                             *)
(***************************************************************************)
MaxGuardSlots == 2
MaxPGFetches == 3
MaxPGPages == 1
GuardSlots == 1 .. MaxGuardSlots

\* A null Page pointer; page_ holds the frame of the Page otherwise.
NullPage == -1

\* The world a guard acts on: the buffer pool, the latches of its pages, and
\* whether a release of something not held has happened.
PGWorld == [bpm |-> bpm, latch |-> pgLatch, unpin_failed |-> pgHist.unpin_failed,
            bad_unlatch |-> pgHist.bad_unlatch, unpinned |-> {}]

\* The page latch: readers share, a writer excludes.
RLatchFree(l) == ~l.writer
WLatchFree(l) == ~l.writer /\ l.readers = 0
RLatch(w, page) == [w EXCEPT !.latch[page].readers = @ + 1]
WLatch(w, page) == [w EXCEPT !.latch[page].writer = TRUE]
RUnlatch(w, page) ==
  IF w.latch[page].readers = 0 THEN [w EXCEPT !.bad_unlatch = TRUE]
  ELSE [w EXCEPT !.latch[page].readers = @ - 1]
WUnlatch(w, page) ==
  IF ~w.latch[page].writer THEN [w EXCEPT !.bad_unlatch = TRUE]
  ELSE [w EXCEPT !.latch[page].writer = FALSE]

\* No guard object in a slot.
NoGuard == [kind |-> "none", waiting |-> FALSE, bpm_ |-> FALSE, page_ |-> NullPage,
            is_dirty_ |-> FALSE]

\* A guard built from (bpm, page): BasicPageGuard, or the guard_ member of a
\* ReadPageGuard / WritePageGuard.
PageGuard(kind, bpm_ptr, page) ==
  [kind |-> kind, waiting |-> FALSE, bpm_ |-> bpm_ptr, page_ |-> page, is_dirty_ |-> FALSE]

\* BasicPageGuard::Drop: [w, g]
BasicDropKeepingPage(w, g) ==
  IF g.bpm_ /\ g.page_ # NullPage
  THEN LET r == UnpinPage(w.bpm, w.bpm.pages[g.page_].page_id, g.is_dirty_)
       IN [w |-> [w EXCEPT !.bpm = r.b, !.unpin_failed = @ \/ ~r.ok,
                           !.unpinned = @ \cup {g.is_dirty_}], g |-> g]
  ELSE [w |-> w, g |-> g]
BasicDrop(w, g) ==
  LET w1 == IF g.bpm_ /\ g.page_ # NullPage
            THEN LET r == UnpinPage(w.bpm, w.bpm.pages[g.page_].page_id, g.is_dirty_)
                 IN [w EXCEPT !.bpm = r.b, !.unpin_failed = @ \/ ~r.ok,
                              !.unpinned = @ \cup {g.is_dirty_}]
            ELSE w
  IN [w |-> w1, g |-> [g EXCEPT !.bpm_ = FALSE, !.page_ = NullPage]]

ReadDrop(w, g) == BasicDrop(IF g.page_ # NullPage THEN RUnlatch(w, g.page_) ELSE w, g)

WriteDrop(w, g) ==
  BasicDrop(IF g.page_ # NullPage THEN WUnlatch(w, g.page_) ELSE w, [g EXCEPT !.is_dirty_ = TRUE])

GuardDrop(w, g) ==
  CASE g.kind = "read" -> ReadDrop(w, g)
    [] g.kind = "write" -> WriteDrop(w, g)
    [] OTHER -> BasicDrop(w, g)

\* BasicPageGuard::operator=(BasicPageGuard &&that): [w, this, that]; same
\* says that both are one object.
BasicMoveAssign(w, this, that, same) ==
  LET d == BasicDrop(w, this)
      src == IF same THEN d.g ELSE that
      taken == [d.g EXCEPT !.bpm_ = src.bpm_, !.page_ = src.page_, !.is_dirty_ = src.is_dirty_]
      emptied == [src EXCEPT !.bpm_ = FALSE, !.page_ = NullPage]
  IN [w |-> d.w,
      this |-> IF same THEN [taken EXCEPT !.bpm_ = FALSE, !.page_ = NullPage] ELSE taken,
      that |-> emptied]

\* operator= of the three guard classes: the latched ones call their own Drop
\* and then move guard_.
GuardMoveAssign(w, this, that, same) ==
  IF this.kind = "basic" THEN BasicMoveAssign(w, this, that, same)
  ELSE LET d == GuardDrop(w, this)
       IN BasicMoveAssign(d.w, d.g, IF same THEN d.g ELSE that, same)

\* The move constructors: [w, this, that]
GuardMoveConstruct(w, that) ==
  IF that.kind = "basic"
  THEN [w |-> w, this |-> [that EXCEPT !.waiting = FALSE],
        that |-> [that EXCEPT !.bpm_ = FALSE, !.page_ = NullPage]]
  ELSE BasicMoveAssign(w, PageGuard(that.kind, FALSE, NullPage), that, FALSE)

\* The latch calls of the buffer pool and of the upgrades: [ok, w], ok = FALSE
\* while the caller has to wait.
LatchForRead(w, page) == [ok |-> RLatchFree(w.latch[page]), w |-> RLatch(w, page)]

LatchForWriteShared(w, page) == [ok |-> RLatchFree(w.latch[page]), w |-> RLatch(w, page)]
LatchForWrite(w, page) == [ok |-> WLatchFree(w.latch[page]), w |-> WLatch(w, page)]

\* BasicPageGuard::UpgradeRead / UpgradeWrite: [ok, w, this, upgraded]
Upgrade(w, this, kind) ==
  LET l == IF this.page_ = NullPage THEN [ok |-> TRUE, w |-> w]
           ELSE IF kind = "read" THEN LatchForRead(w, this.page_)
           ELSE LatchForWrite(w, this.page_)
  IN [ok |-> l.ok, w |-> l.w,
      upgraded |-> PageGuard(kind, this.bpm_, this.page_),
      this |-> [this EXCEPT !.bpm_ = FALSE, !.page_ = NullPage]]

(***************************************************************************)
(* Page guards: state machine                                              *)
(***************************************************************************)
Owning(g) == g.bpm_ /\ g.page_ # NullPage

PGInit ==
  /\ bpm = BufferPoolManagerInit(MaxPoolSize, MaxReplacerK)
  /\ bpHist = <<>>
  /\ pgLatch = [f \in 0 .. (MaxPoolSize - 1) |-> [readers |-> 0, writer |-> FALSE]]
  /\ pgGuards = [s \in GuardSlots |-> NoGuard]
  /\ pgHist = [unpin_failed |-> FALSE, bad_unlatch |-> FALSE, paths |-> {},
               from_dirty |-> {}, dirty_unpins |-> {}]

\* The calling thread is not blocked inside the replacer.
PGReady == bpm.replacer.outcome # "relock"

\* A new guard variable is declared in the first slot that holds none: which
\* of the unused variables the caller declares makes no difference.
Declares(s) ==
  /\ pgGuards[s].kind = "none"
  /\ \A o \in GuardSlots : o < s => pgGuards[o].kind # "none"

\* The run has few enough NewPage and FetchPage calls.
PGMayFetch == bpm.replacer.current_timestamp < MaxPGFetches

\* The step of a guard operation. pgHist.from_dirty holds the slots of the
\* latched guards that an upgrade made of a basic guard with is_dirty_ set
\* (upgraded adds to it, released takes from it), pgHist.dirty_unpins the
\* is_dirty arguments of the UnpinPage calls made when such a guard (dropped)
\* let go of its page; w.unpinned holds the arguments of this step's calls.
PGStepNoting(w, guards, paths, upgraded, dropped, released) ==
  /\ bpm' = w.bpm
  /\ pgLatch' = w.latch
  /\ pgGuards' = guards
  /\ pgHist' = [unpin_failed |-> w.unpin_failed, bad_unlatch |-> w.bad_unlatch,
                paths |-> pgHist.paths \cup paths,
                from_dirty |-> (pgHist.from_dirty \ (dropped \cup released)) \cup upgraded,
                dirty_unpins |-> pgHist.dirty_unpins \cup
                                   (IF dropped \cap pgHist.from_dirty # {} THEN w.unpinned ELSE {})]
  /\ UNCHANGED <<htVars, bpHist, trVars, tsVars, dsVars, lruVars, exVars>>

PGStep(w, guards, paths) == PGStepNoting(w, guards, paths, {}, {}, {})

\* auto s = bpm->NewPageGuarded(&page_id)
PGNewPageGuarded(s) ==
  /\ PGReady /\ PGMayFetch
  /\ Declares(s)
  /\ bpm.next_page_id < MaxPGPages
  /\ LET res == NewPage(bpm)
     IN PGStep([PGWorld EXCEPT !.bpm = res.b],
               [pgGuards EXCEPT ![s] = PageGuard("basic", TRUE, res.frame_id)], {})

\* auto s = bpm->FetchPageBasic(page_id)
PGFetchPageBasic(s, page_id) ==
  /\ PGReady /\ PGMayFetch
  /\ Declares(s)
  /\ page_id < bpm.next_page_id
  /\ LET res == FetchPage(bpm, page_id)
     IN PGStep([PGWorld EXCEPT !.bpm = res.b],
               [pgGuards EXCEPT ![s] = PageGuard("basic", TRUE, res.frame_id)], {})

\* FetchPageRead / FetchPageWrite up to the latch call: the page is pinned;
\* with no page the guard is returned at once.
PGFetchPageLatched(s, page_id, kind) ==
  /\ PGReady /\ PGMayFetch
  /\ Declares(s)
  /\ page_id < bpm.next_page_id
  /\ LET res == FetchPage(bpm, page_id)
     IN PGStep([PGWorld EXCEPT !.bpm = res.b],
               [pgGuards EXCEPT ![s] = [PageGuard(kind, TRUE, res.frame_id)
                                          EXCEPT !.waiting = (res.frame_id # NullPage)]], {})

PGFetchPageRead(s, page_id) == PGFetchPageLatched(s, page_id, "read")

PGFetchPageWrite(s, page_id) == PGFetchPageLatched(s, page_id, "write")

\* page->RLatch() / page->WLatch() of FetchPageRead / FetchPageWrite returns
\* and the guard is handed to the caller.
PGLatchGranted(s) ==
  /\ PGReady
  /\ pgGuards[s].waiting
  /\ LET l == IF pgGuards[s].kind = "read" THEN LatchForRead(PGWorld, pgGuards[s].page_)
              ELSE LatchForWrite(PGWorld, pgGuards[s].page_)
     IN /\ l.ok
        /\ PGStep(l.w, [pgGuards EXCEPT ![s].waiting = FALSE], {})

\* auto d = s.UpgradeRead() / s.UpgradeWrite()
PGUpgrade(s, d, kind) ==
  /\ PGReady
  /\ pgGuards[s].kind = "basic" /\ Declares(d)
  /\ LET u == Upgrade(PGWorld, pgGuards[s], kind)
     IN /\ u.ok
        /\ PGStepNoting(u.w, [pgGuards EXCEPT ![s] = u.this, ![d] = u.upgraded],
                        IF Owning(pgGuards[s]) THEN {"upgrade"} ELSE {},
                        IF Owning(pgGuards[s]) /\ pgGuards[s].is_dirty_ THEN {d} ELSE {},
                        {}, {})

PGUpgradeRead(s, d) == PGUpgrade(s, d, "read")

PGUpgradeWrite(s, d) == PGUpgrade(s, d, "write")

\* s.Drop()
PGDrop(s) ==
  /\ PGReady
  /\ pgGuards[s].kind # "none" /\ ~pgGuards[s].waiting
  /\ LET d == GuardDrop(PGWorld, pgGuards[s])
     IN PGStepNoting(d.w, [pgGuards EXCEPT ![s] = d.g],
                     IF Owning(pgGuards[s]) THEN {"drop"} ELSE {"empty"}, {}, {s}, {})

\* s goes out of scope: the destructor runs.
PGDestroy(s) ==
  /\ PGReady
  /\ pgGuards[s].kind # "none" /\ ~pgGuards[s].waiting
  /\ LET d == GuardDrop(PGWorld, pgGuards[s])
     IN PGStepNoting(d.w, [pgGuards EXCEPT ![s] = NoGuard],
                     IF Owning(pgGuards[s]) THEN {"destroy"} ELSE {"empty"}, {}, {s}, {})

\* d = std::move(s)
PGMoveAssign(d, s) ==
  /\ PGReady
  /\ pgGuards[d].kind # "none" /\ pgGuards[d].kind = pgGuards[s].kind
  /\ ~pgGuards[d].waiting /\ ~pgGuards[s].waiting
  /\ LET m == GuardMoveAssign(PGWorld, pgGuards[d], pgGuards[s], d = s)
     IN PGStepNoting(m.w,
                     IF d = s THEN [pgGuards EXCEPT ![d] = m.this]
                     ELSE [pgGuards EXCEPT ![d] = m.this, ![s] = m.that],
                     IF Owning(pgGuards[d]) THEN {"assign"} ELSE {}, {}, {d}, {s})

\* auto d = std::move(s) (move construction)
PGMoveConstruct(d, s) ==
  /\ PGReady
  /\ Declares(d) /\ pgGuards[s].kind # "none" /\ ~pgGuards[s].waiting
  /\ LET m == GuardMoveConstruct(PGWorld, pgGuards[s])
     IN PGStepNoting(m.w, [pgGuards EXCEPT ![d] = m.this, ![s] = m.that], {}, {}, {}, {s})

InitPG == PGInit /\ HTIdle /\ TRIdle /\ TSIdle /\ DSIdle /\ LRUIdle /\ EXIdle

NextPG ==
  \/ \E s \in GuardSlots : PGNewPageGuarded(s)
  \/ \E s \in GuardSlots, page_id \in PageIds : PGFetchPageBasic(s, page_id)
  \/ \E s \in GuardSlots, page_id \in PageIds : PGFetchPageRead(s, page_id)
  \/ \E s \in GuardSlots, page_id \in PageIds : PGFetchPageWrite(s, page_id)
  \/ \E s \in GuardSlots : PGLatchGranted(s)
  \/ \E s, d \in GuardSlots : PGUpgradeRead(s, d)
  \/ \E s, d \in GuardSlots : PGUpgradeWrite(s, d)
  \/ \E s \in GuardSlots : PGDrop(s)
  \/ \E s \in GuardSlots : PGDestroy(s)
  \/ \E s, d \in GuardSlots : PGMoveAssign(d, s)
  \/ \E s, d \in GuardSlots : PGMoveConstruct(d, s)

SpecPG == InitPG /\ [][NextPG]_vars

(***************************************************************************)
(* Claims about the page guards                                            *)
(***************************************************************************)
PinOwners(page) ==
  Cardinality({s \in GuardSlots : Owning(pgGuards[s]) /\ pgGuards[s].page_ = page})

LatchOwners(page, kind) ==
  Cardinality({s \in GuardSlots : pgGuards[s].kind = kind /\ ~pgGuards[s].waiting
                                    /\ pgGuards[s].page_ = page})

\* C9: whatever drops, destructions, move assignments, move constructions and
\* upgrades have happened, every pin and every latch hold of a page belongs
\* to exactly one guard that has not released it, and no guard has released
\* a pin or a latch it did not own.
C9_GuardsReleaseExactlyOnce ==
  /\ ~pgHist.unpin_failed /\ ~pgHist.bad_unlatch
  /\ \A page \in DOMAIN bpm.pages :
       /\ bpm.pages[page].pin_count = PinOwners(page)
       /\ pgLatch[page].readers = LatchOwners(page, "read")
       /\ pgLatch[page].writer = (LatchOwners(page, "write") = 1)
       /\ LatchOwners(page, "write") <= 1

\* C9 (witness): an owning guard has been dropped, another destroyed, another
\* move-assigned over, another upgraded, and an empty guard has been dropped
\* or destroyed.
C9_Witness == pgHist.paths = {"drop", "destroy", "assign", "upgrade", "empty"}

\* C10: a live write guard on a page is the only live latched guard on that
\* page, and a FetchPageRead that waits for the latch of a page is let in
\* whenever the guards that are live on the page are read guards only.
C10_WriteGuardExcludes ==
  /\ \A s \in GuardSlots :
       (pgGuards[s].kind = "write" /\ ~pgGuards[s].waiting /\ pgGuards[s].page_ # NullPage) =>
         \A o \in GuardSlots \ {s} :
           (pgGuards[o].kind \in {"read", "write"} /\ ~pgGuards[o].waiting
              /\ pgGuards[o].page_ # NullPage)
             => bpm.pages[pgGuards[o].page_].page_id # bpm.pages[pgGuards[s].page_].page_id
  /\ \A s \in GuardSlots :
       (pgGuards[s].kind = "read" /\ pgGuards[s].waiting
          /\ LatchOwners(pgGuards[s].page_, "write") = 0)
         => LatchForRead(PGWorld, pgGuards[s].page_).ok

\* C10 (witness): a write guard on a page is live and a FetchPageRead of the
\* same page waits for it.
C10_Witness ==
  \E x, r \in GuardSlots :
    /\ pgGuards[x].kind = "write" /\ ~pgGuards[x].waiting /\ pgGuards[x].page_ # NullPage
    /\ pgGuards[r].kind = "read" /\ pgGuards[r].waiting
    /\ pgGuards[r].page_ = pgGuards[x].page_

\* s.GetDataMut() / s.AsMut<T>() on a basic guard that holds a page: the guard
\* records that the page was written.
PGGetDataMut(s) ==
  /\ PGReady
  /\ pgGuards[s].kind = "basic" /\ Owning(pgGuards[s]) /\ ~pgGuards[s].is_dirty_
  /\ PGStep(PGWorld, [pgGuards EXCEPT ![s].is_dirty_ = TRUE], {})

NextPGDirty ==
  \/ NextPG
  \/ \E s \in GuardSlots : PGGetDataMut(s)

\* The page guards with callers that write through their basic guards.
SpecPGDirty == InitPG /\ [][NextPGDirty]_vars

\* C38: when a latched guard that UpgradeRead or UpgradeWrite made of a basic
\* guard with is_dirty_ set lets go of its page, the page is unpinned with
\* is_dirty = true.
C38_UpgradeKeepsDirty == pgHist.dirty_unpins \subseteq {TRUE}

(***************************************************************************)
(* Disk scheduler: DiskRequest, Channel, DiskManager, DiskScheduler        *)
(***************************************************************************)
MaxDSRequests == 3
DSPageIds == {0}
DSData == {1, 2}
DSRequestIds == 1 .. MaxDSRequests

\* std::nullopt of std::optional<DiskRequest>
NullOpt == [has_value |-> FALSE, id |-> 0, is_write_ |-> FALSE, page_id_ |-> 0, data_ |-> 0]

\* std::make_optional<DiskRequest>(r); id names the request's promise and buffer.
DiskRequest(id, is_write, page_id, data) ==
  [has_value |-> TRUE, id |-> id, is_write_ |-> is_write, page_id_ |-> page_id, data_ |-> data]

\* Channel<T>: a queue; Put adds at the back, Get waits for an element and
\* takes the one at the front.
ChannelPut(q, element) == Append(q, element)
ChannelHasElement(q) == q # <<>>
ChannelGet(q) == [element |-> Head(q), q |-> Tail(q)]

\* DiskManager: the pages on disk. A call on which the I/O fails returns with
\* nothing transferred.
DiskManagerInit == [p \in DSPageIds |-> 0]
WritePage(disk, page_id, data, io_error) ==
  IF io_error THEN disk ELSE [disk EXCEPT ![page_id] = data]
ReadPage(disk, page_id, old_data, io_error) == IF io_error THEN old_data ELSE disk[page_id]

\* DiskScheduler::DiskScheduler: the worker thread is started and waits in Get.
DiskSchedulerInit ==
  [disk_manager_ |-> DiskManagerInit,
   request_queue_ |-> <<>>,
   worker |-> "get",
   request |-> NullOpt,
   owner |-> "alive",
   callback_ |-> [id \in DSRequestIds |-> "unset"],
   buffer |-> [id \in DSRequestIds |-> 0]]

\* DiskScheduler::Schedule
ScheduleAtFront(s, r) == [s EXCEPT !.request_queue_ = <<r>> \o @]
Schedule(s, r) == [s EXCEPT !.request_queue_ = ChannelPut(@, r)]

\* DiskScheduler::~DiskScheduler up to the join
DtorWithoutSentinel(s) == [s EXCEPT !.owner = "joining"]
Dtor(s) == [s EXCEPT !.request_queue_ = ChannelPut(@, NullOpt), !.owner = "joining"]

\* background_thread_->join() returns once the worker has left StartWorkerThread.
Joinable(s) == s.owner = "joining" /\ s.worker = "exited"
Join(s) == [s EXCEPT !.owner = "destroyed"]

\* StartWorkerThread: request = request_queue_.Get(), request.has_value()
WorkerGet(s) ==
  LET g == ChannelGet(s.request_queue_)
  IN [s EXCEPT !.request_queue_ = g.q, !.request = g.element,
               !.worker = IF g.element.has_value THEN "io" ELSE "exited"]

\* StartWorkerThread: disk_manager_->WritePage / ReadPage
WorkerIO(s, io_error) ==
  LET r == s.request
  IN IF r.is_write_
     THEN [s EXCEPT !.disk_manager_ = WritePage(@, r.page_id_, r.data_, io_error),
                    !.worker = "signal"]
     ELSE [s EXCEPT !.buffer[r.id] = ReadPage(s.disk_manager_, r.page_id_, @, io_error),
                    !.worker = "signal"]

\* StartWorkerThread: request->callback_.set_value(true)
WorkerSetValue(s) == [s EXCEPT !.callback_[s.request.id] = "true", !.worker = "get"]

(***************************************************************************)
(* Disk scheduler: state machine                                           *)
(***************************************************************************)
DSInit ==
  /\ sched = DiskSchedulerInit
  /\ dsHist = [scheduled |-> <<>>, calls |-> <<>>, io_errors |-> {}, max_backlog |-> 0,
               backlog_at_dtor |-> 0]

DSStep(s) ==
  /\ sched' = s
  /\ UNCHANGED <<htVars, bpVars, trVars, tsVars, pgVars, lruVars, exVars>>

\* A caller schedules a request while the scheduler is alive.
DSSchedule(is_write, page_id, data) ==
  /\ sched.owner = "alive"
  /\ Len(dsHist.scheduled) < MaxDSRequests
  /\ LET id == Len(dsHist.scheduled) + 1
         s == Schedule(sched, DiskRequest(id, is_write, page_id, data))
     IN /\ DSStep(s)
        /\ dsHist' = [dsHist EXCEPT !.scheduled = Append(@, id),
                                    !.max_backlog = IF Len(s.request_queue_) > @
                                                    THEN Len(s.request_queue_) ELSE @]

DSScheduleWrite(page_id, data) == DSSchedule(TRUE, page_id, data)

DSScheduleRead(page_id) == DSSchedule(FALSE, page_id, 0)

\* The owner destroys the scheduler.
DSDtor ==
  /\ sched.owner = "alive"
  /\ DSStep(Dtor(sched))
  /\ dsHist' = [dsHist EXCEPT !.backlog_at_dtor = Len(sched.request_queue_)]

DSJoin ==
  /\ Joinable(sched)
  /\ DSStep(Join(sched))
  /\ UNCHANGED dsHist

DSWorkerGet ==
  /\ sched.worker = "get"
  /\ ChannelHasElement(sched.request_queue_)
  /\ DSStep(WorkerGet(sched))
  /\ UNCHANGED dsHist

DSWorkerIO(io_error) ==
  /\ sched.worker = "io"
  /\ DSStep(WorkerIO(sched, io_error))
  /\ dsHist' = [dsHist EXCEPT !.calls = Append(@, sched.request.id),
                              !.io_errors = IF io_error THEN @ \cup {sched.request.id} ELSE @]

DSWorkerSetValue ==
  /\ sched.worker = "signal"
  /\ DSStep(WorkerSetValue(sched))
  /\ UNCHANGED dsHist

InitDS == DSInit /\ HTIdle /\ BPIdle /\ TRIdle /\ TSIdle /\ PGIdle /\ LRUIdle /\ EXIdle

DSWorker ==
  \/ DSWorkerGet
  \/ \E io_error \in BOOLEAN : DSWorkerIO(io_error)
  \/ DSWorkerSetValue

NextDS ==
  \/ \E page_id \in DSPageIds, data \in DSData : DSScheduleWrite(page_id, data)
  \/ \E page_id \in DSPageIds : DSScheduleRead(page_id)
  \/ DSDtor
  \/ DSJoin
  \/ DSWorkerGet
  \/ \E io_error \in BOOLEAN : DSWorkerIO(io_error)
  \/ DSWorkerSetValue

SpecDS == InitDS /\ [][NextDS]_vars

\* The worker is a thread of its own and the owner's join is a blocking call:
\* each of them takes its next step whenever that step stays possible.
SpecDSLive == SpecDS /\ WF_vars(DSWorker) /\ WF_vars(DSJoin)

(***************************************************************************)
(* Claims about the disk scheduler                                         *)
(***************************************************************************)
\* C11: the requests the worker has executed on the DiskManager are, in
\* order, the first requests that Schedule enqueued.
C11_WorkerIsFIFO ==
  /\ Len(dsHist.calls) <= Len(dsHist.scheduled)
  /\ dsHist.calls = SubSeq(dsHist.scheduled, 1, Len(dsHist.calls))

\* C11 (witness): three requests have been executed, and at some time two of
\* them were waiting in the queue together.
C11_Witness == Len(dsHist.calls) >= 3 /\ dsHist.max_backlog >= 2

DSServed(id) ==
  /\ \E i \in 1 .. Len(dsHist.calls) : dsHist.calls[i] = id
  /\ sched.callback_[id] # "unset"

DSAllServed == \A i \in 1 .. Len(dsHist.scheduled) : DSServed(dsHist.scheduled[i])

\* C12: once the destructor has started, the worker comes to execute and
\* fulfil every request scheduled before it, the worker exits only then, and
\* the join returns.
C12_DtorDrainsQueue ==
  /\ [](sched.worker = "exited" => DSAllServed)
  /\ (sched.owner = "joining") ~> (sched.owner = "destroyed" /\ sched.worker = "exited"
                                     /\ DSAllServed)

\* C12 (witness): the destructor has returned, and two requests were still
\* in the queue when it started.
C12_Witness == sched.owner = "destroyed" /\ dsHist.backlog_at_dtor >= 2

\* C13: a request on which the DiskManager failed has its completion signal
\* fulfilled as failed, never as succeeded.
C13_FailureFailsSignal ==
  \A id \in dsHist.io_errors : sched.callback_[id] \in {"unset", "false"}

(***************************************************************************)
(* LRU-K replacer driven through its public interface: state machine       *)
(***************************************************************************)
MaxLRUOps == 6

\* The frames the replacer tracks.
Tracked(r) == {f \in ReplacerFrames : r.recorded_cnt[f] > 0}

LRULast(op, frame_id, set_evictable, ok, victim) ==
  [op |-> op, frame_id |-> frame_id, set_evictable |-> set_evictable, ok |-> ok,
   victim |-> victim, pre |-> lru, accesses |-> lruHist.accesses]

LRUInit ==
  /\ \E k \in 1 .. MaxReplacerK : lru = LRUKReplacerInit(MaxPoolSize, k)
  /\ lruHist = [ops |-> 0, removed |-> FALSE,
                accesses |-> [f \in ReplacerFrames |-> <<>>],
                last |-> [op |-> "none"]]

\* The caller is not blocked inside an earlier call.
LRUReady == lruHist.ops < MaxLRUOps /\ lru.outcome # "relock"

LRUStep(r, accesses, removed, last) ==
  /\ lru' = r
  /\ lruHist' = [ops |-> lruHist.ops + 1, removed |-> lruHist.removed \/ removed,
                 accesses |-> accesses, last |-> last]
  /\ UNCHANGED <<htVars, bpVars, trVars, tsVars, pgVars, dsVars, exVars>>

\* replacer.RecordAccess(frame_id); a std::exception is caught by the caller.
LRURecordAccess(frame_id) ==
  /\ LRUReady
  /\ LET r == RecordAccess(lru, frame_id)
     IN LRUStep(r,
                IF r.outcome = "threw" THEN lruHist.accesses
                ELSE [lruHist.accesses EXCEPT ![frame_id] = Append(@, lru.current_timestamp + 1)],
                FALSE, LRULast("RecordAccess", frame_id, FALSE, r.outcome = "ok", -1))

\* replacer.SetEvictable(frame_id, set_evictable)
LRUSetEvictable(frame_id, set_evictable) ==
  /\ LRUReady
  /\ LET r == SetEvictable([lru EXCEPT !.outcome = "ok"], frame_id, set_evictable)
     IN LRUStep(r, lruHist.accesses, FALSE,
                LRULast("SetEvictable", frame_id, set_evictable, TRUE, -1))

\* replacer.Evict(&frame_id)
LRUEvict ==
  /\ LRUReady
  /\ LET e == Evict([lru EXCEPT !.outcome = "ok"])
     IN LRUStep(e.r,
                IF e.ok THEN [lruHist.accesses EXCEPT ![e.frame_id] = <<>>]
                ELSE lruHist.accesses,
                FALSE, LRULast("Evict", -1, FALSE, e.ok, e.frame_id))

\* replacer.Remove(frame_id); a std::exception is caught by the caller.
LRURemove(frame_id) ==
  /\ LRUReady
  /\ LET r == ReplacerRemove(lru, frame_id)
         gone == r.outcome = "ok" /\ lru.recorded_cnt[frame_id] > 0
     IN LRUStep(r,
                IF gone THEN [lruHist.accesses EXCEPT ![frame_id] = <<>>]
                ELSE lruHist.accesses,
                gone, LRULast("Remove", frame_id, FALSE, r.outcome = "ok", -1))

InitLRU == LRUInit /\ HTIdle /\ BPIdle /\ TRIdle /\ TSIdle /\ PGIdle /\ DSIdle /\ EXIdle

NextLRU ==
  \/ \E frame_id \in ReplacerFrames : LRURecordAccess(frame_id)
  \/ \E frame_id \in ReplacerFrames, set_evictable \in BOOLEAN :
       LRUSetEvictable(frame_id, set_evictable)
  \/ LRUEvict
  \/ \E frame_id \in ReplacerFrames : LRURemove(frame_id)

SpecLRU == InitLRU /\ [][NextLRU]_vars

(***************************************************************************)
(* Claims about the LRU-K replacer                                         *)
(***************************************************************************)
\* The evictable frames before the last call, and those of them with fewer
\* than k recorded accesses.
Candidates == {f \in Tracked(lruHist.last.pre) : lruHist.last.pre.evictable[f]}

Infinite == {f \in Candidates : Len(lruHist.last.accesses[f]) < lru.k}

\* The k-th most recent access of a frame with at least k accesses.
KthAccess(f) == lruHist.last.accesses[f][Len(lruHist.last.accesses[f]) - lru.k + 1]

\* C14: an Evict with evictable frames returns, if some of them have fewer
\* than k accesses, the one of those that was first accessed earliest, and
\* otherwise the one whose k-th most recent access is the oldest; with no
\* evictable frame it returns none.
C14_EvictLargestKDistance ==
  lruHist.last.op = "Evict" =>
    /\ lruHist.last.ok = (Candidates # {})
    /\ (Candidates # {} /\ Infinite # {}) =>
         /\ lruHist.last.victim \in Infinite
         /\ \A f \in Infinite :
              lruHist.last.accesses[lruHist.last.victim][1] <= lruHist.last.accesses[f][1]
    /\ (Candidates # {} /\ Infinite = {}) =>
         /\ lruHist.last.victim \in Candidates
         /\ \A f \in Candidates : KthAccess(lruHist.last.victim) <= KthAccess(f)

\* C14 (witness): Evict chose between two frames with k = 2 accesses each,
\* and the victim is the one that was accessed last.
C14_Witness ==
  /\ lruHist.last.op = "Evict" /\ lruHist.last.ok /\ lru.k = 2
  /\ Cardinality(Candidates) = 2 /\ Infinite = {}
  /\ \A f \in Candidates :
       lruHist.last.accesses[f][2] <= lruHist.last.accesses[lruHist.last.victim][2]

\* C15: a RecordAccess on a frame that was not tracked leaves that frame
\* non-evictable and Size() as it was.
C15_NewFrameNotEvictable ==
  (/\ lruHist.last.op = "RecordAccess" /\ lruHist.last.ok
   /\ lruHist.last.frame_id \notin Tracked(lruHist.last.pre)) =>
    /\ ~lru.evictable[lruHist.last.frame_id]
    /\ ReplacerSize(lru) = ReplacerSize(lruHist.last.pre)

\* C16: after every call that has returned, Size() is the number of tracked
\* frames whose evictable flag is set.
C16_SizeCountsEvictable ==
  lru.outcome # "relock" =>
    ReplacerSize(lru) = Cardinality({f \in Tracked(lru) : lru.evictable[f]})

\* C16 (witness): an Evict has returned a frame while another frame is
\* tracked and non-evictable, after a Remove had dropped a tracked frame.
C16_Witness ==
  /\ lruHist.last.op = "Evict" /\ lruHist.last.ok /\ lruHist.removed
  /\ \E f \in Tracked(lru) : ~lru.evictable[f]

\* C17: a RecordAccess with a frame id outside 0 .. replacer_size_ - 1 throws
\* and leaves the replacer as it was.
C17_InvalidFrameRejected ==
  (/\ lruHist.last.op = "RecordAccess"
   /\ lruHist.last.frame_id \notin 0 .. (lruHist.last.pre.replacer_size - 1)) =>
    /\ lru.outcome = "threw"
    /\ [lru EXCEPT !.outcome = "ok"] = [lruHist.last.pre EXCEPT !.outcome = "ok"]

(***************************************************************************)
(* Query executors: tuples, expressions, the table heap and its indexes    *)
(***************************************************************************)
\* Rows offered to a plan, and the calls made on its root executor per run.
MaxRows == 3
MaxExecCalls == 4
RowValues == {1, 2}

\* Every sequence over a set of at most n elements.
RECURSIVE SeqsUpTo(_, _)
SeqsUpTo(S, n) ==
  IF n = 0 THEN {<<>>}
  ELSE LET shorter == SeqsUpTo(S, n - 1)
       IN shorter \cup {Append(s, x) : s \in {q \in shorter : Len(q) = n - 1}, x \in S}

\* A tuple is the sequence of its column values. The expressions a plan
\* carries: a constant, a column of the child's tuple, a column plus one,
\* and the comparison of a column with a constant.
ConstantValue(val) == [kind |-> "constant", val |-> val, col |-> 0]
ColumnValue(col) == [kind |-> "column", val |-> 0, col |-> col]
ColumnPlusOne(col) == [kind |-> "plus_one", val |-> 0, col |-> col]
ColumnEquals(col, val) == [kind |-> "equals", val |-> val, col |-> col]

Evaluate(expr, tuple) ==
  CASE expr.kind = "constant" -> expr.val
    [] expr.kind = "column" -> tuple[expr.col]
    [] expr.kind = "plus_one" -> tuple[expr.col] + 1
    [] OTHER -> tuple[expr.col] = expr.val

\* TableHeap: the rows in the order they were inserted; the RID of a row is
\* its position and never changes. A row is [meta, tuple].
TupleMeta(ts, is_deleted) == [ts |-> ts, is_deleted |-> is_deleted]

\* The RIDs an iterator made now visits, in order: the rows the heap holds
\* when the iterator is made.
MakeIterator(table) == [i \in 1 .. Len(table) |-> i]

GetTuple(table, rid) == table[rid]

\* [table, rid]: the tuple goes behind the last row and gets a fresh RID.
InsertTuple(table, meta, tuple) ==
  [table |-> Append(table, [meta |-> meta, tuple |-> tuple]), rid |-> Len(table) + 1]

UpdateTupleMeta(table, meta, rid) == [table EXCEPT ![rid].meta = meta]

\* An index is [key_attr, entries], entries a set of <<key, rid>>.
KeyFromTuple(tuple, key_attr) == tuple[key_attr]

DeleteEntry(index, key, rid) == [index EXCEPT !.entries = @ \ {<<key, rid>>}]

InsertEntry(index, key, rid) == [index EXCEPT !.entries = @ \cup {<<key, rid>>}]

\* The index a table has on a column when every live row is entered.
IndexOf(table, key_attr) ==
  [key_attr |-> key_attr,
   entries |-> {<<KeyFromTuple(table[rid].tuple, key_attr), rid>> :
                  rid \in {r \in 1 .. Len(table) : ~table[r].meta.is_deleted}}]

(***************************************************************************)
(* SeqScanExecutor: [rids_, rid_iter_], rid_iter_ a position in rids_      *)
(***************************************************************************)
NoFilter == [kind |-> "none", val |-> 0, col |-> 0]

SeqScanInit(table) == [rids_ |-> MakeIterator(table), rid_iter_ |-> 1]

RECURSIVE SeqScanNext(_, _, _)
\* A variant that walks the heap as it is now instead of the RIDs of Init.
SeqScanNextLive(scan, table, filter_predicate_) ==
  IF scan.rid_iter_ > Len(table)
  THEN [ok |-> FALSE, scan |-> scan, tuple |-> <<>>, rid |-> 0]
  ELSE
    LET row == GetTuple(table, scan.rid_iter_)
        next == [scan EXCEPT !.rid_iter_ = @ + 1]
    IN IF row.meta.is_deleted
            \/ (filter_predicate_ # NoFilter /\ ~Evaluate(filter_predicate_, row.tuple))
       THEN SeqScanNext(next, table, filter_predicate_)
       ELSE [ok |-> TRUE, scan |-> next, tuple |-> row.tuple, rid |-> scan.rid_iter_]

\* SeqScanExecutor::Next: [ok, scan, tuple, rid]. Each round of the do-while
\* takes the next RID of rids_; a deleted row and a row the filter rejects
\* start another round.
SeqScanNext(scan, table, filter_predicate_) ==
  IF scan.rid_iter_ > Len(scan.rids_)
  THEN [ok |-> FALSE, scan |-> scan, tuple |-> <<>>, rid |-> 0]
  ELSE
    LET rid == scan.rids_[scan.rid_iter_]
        row == GetTuple(table, rid)
        next == [scan EXCEPT !.rid_iter_ = @ + 1]
    IN IF row.meta.is_deleted
            \/ (filter_predicate_ # NoFilter /\ ~Evaluate(filter_predicate_, row.tuple))
       THEN SeqScanNext(next, table, filter_predicate_)
       ELSE [ok |-> TRUE, scan |-> next, tuple |-> row.tuple, rid |-> rid]

(***************************************************************************)
(* UpdateExecutor over a SeqScanExecutor of the table it updates. A plan's *)
(* state x is [table, indexes, plan, scan, has_inserted_].                 *)
(***************************************************************************)
\* The rounds after which a loop over the child that has not ended is
\* given up and reported as not terminated.
LoopCap(table) == 2 * Len(table) + 2

\* The index loop of one round: the old key's entry goes, the new one comes.
UpdateIndexes(indexes, child_tuple, child_rid, update_tuple, new_rid) ==
  [i \in DOMAIN indexes |->
     InsertEntry(DeleteEntry(indexes[i], KeyFromTuple(child_tuple, indexes[i].key_attr), child_rid),
                 KeyFromTuple(update_tuple, indexes[i].key_attr), new_rid)]

\* while (child_executor_->Next(&child_tuple, &child_rid)): [x, count,
\* terminated].
RECURSIVE UpdateLoop(_, _, _)
UpdateLoop(x, count, rounds_left) ==
  IF rounds_left = 0 THEN [x |-> x, count |-> count, terminated |-> FALSE]
  ELSE
    LET child == SeqScanNext(x.scan, x.table, x.plan.filter_predicate_) IN
    IF ~child.ok THEN [x |-> [x EXCEPT !.scan = child.scan], count |-> count, terminated |-> TRUE]
    ELSE
      LET marked == UpdateTupleMeta(x.table, TupleMeta(0, TRUE), child.rid)
          update_tuple == [i \in DOMAIN x.plan.target_expressions_ |->
                             Evaluate(x.plan.target_expressions_[i], child.tuple)]
          ins == InsertTuple(marked, TupleMeta(0, FALSE), update_tuple)
      IN UpdateLoop([x EXCEPT !.scan = child.scan,
                              !.table = ins.table,
                              !.indexes = UpdateIndexes(@, child.tuple, child.rid,
                                                        update_tuple, ins.rid)],
                    count + 1, rounds_left - 1)

\* UpdateExecutor::Init
UpdateInit(x) == [x EXCEPT !.scan = SeqScanInit(x.table), !.has_inserted_ = FALSE]

\* UpdateExecutor::Next: [ok, x, count, terminated]
UpdateNext(x) ==
  IF x.has_inserted_ THEN [ok |-> FALSE, x |-> x, count |-> 0, terminated |-> TRUE]
  ELSE LET r == UpdateLoop([x EXCEPT !.has_inserted_ = TRUE], 0, LoopCap(x.table))
       IN [ok |-> TRUE, x |-> r.x, count |-> r.count, terminated |-> r.terminated]

(***************************************************************************)
(* Update over SeqScan as a state machine                                  *)
(***************************************************************************)
UPTables ==
  SeqsUpTo({[meta |-> TupleMeta(0, d), tuple |-> <<v>>] : d \in BOOLEAN, v \in RowValues}, MaxRows)

\* The scan is constructed with no RIDs; the engine calls Init before Next.
UPInit0 ==
  /\ \E table \in UPTables, indexed \in BOOLEAN,
        filter \in {NoFilter, ColumnEquals(1, 1)},
        target \in {ConstantValue(1), ColumnPlusOne(1)} :
       exec = [table |-> table,
               indexes |-> IF indexed THEN <<IndexOf(table, 1)>> ELSE <<>>,
               plan |-> [filter_predicate_ |-> filter, target_expressions_ |-> <<target>>],
               scan |-> [rids_ |-> <<>>, rid_iter_ |-> 1],
               has_inserted_ |-> FALSE,
               initialized |-> FALSE]
  /\ exHist = [calls |-> 0, last |-> [op |-> "none"]]

UPInit ==
  /\ exHist.calls < MaxExecCalls
  /\ exec' = [UpdateInit(exec) EXCEPT !.initialized = TRUE]
  /\ exHist' = [calls |-> exHist.calls + 1, last |-> [op |-> "init"]]
  /\ UNCHANGED <<htVars, bpVars, trVars, tsVars, pgVars, dsVars, lruVars>>

UPNext ==
  /\ exHist.calls < MaxExecCalls
  /\ exec.initialized
  /\ LET r == UpdateNext(exec) IN
     /\ exec' = r.x
     /\ exHist' = [calls |-> exHist.calls + 1,
                   last |-> [op |-> "next", ok |-> r.ok, count |-> r.count,
                             terminated |-> r.terminated, table_before |-> exec.table,
                             rids |-> exec.scan.rids_]]
  /\ UNCHANGED <<htVars, bpVars, trVars, tsVars, pgVars, dsVars, lruVars>>

InitUP == UPInit0 /\ HTIdle /\ BPIdle /\ TRIdle /\ TSIdle /\ PGIdle /\ DSIdle /\ LRUIdle

NextUP == UPInit \/ UPNext

SpecUP == InitUP /\ [][NextUP]_vars

(***************************************************************************)
(* Claims about Update over SeqScan                                        *)
(***************************************************************************)
\* The RIDs of the scan's snapshot whose rows were live and passed the
\* filter when Next was called, in the snapshot's order.
UPScanned ==
  LET before == exHist.last.table_before
      Live(rid) == /\ ~before[rid].meta.is_deleted
                   /\ \/ exec.plan.filter_predicate_ = NoFilter
                      \/ Evaluate(exec.plan.filter_predicate_, before[rid].tuple)
  IN SelectSeq(exHist.last.rids, Live)

\* C29: a Next of the Update that did its work has ended its loop; it has
\* marked each row that the scan's Init saw live (and the filter passes)
\* deleted and appended one new row for it, made by the target expressions;
\* no other row has changed, and no new row has been read back: the new
\* rows are live and the count is the number of rows the scan saw.
C29_SelfUpdateTerminates ==
  (exHist.last.op = "next" /\ exHist.last.ok) =>
    LET before == exHist.last.table_before
        scanned == UPScanned
    IN /\ exHist.last.terminated
       /\ exHist.last.count = Len(scanned)
       /\ Len(exec.table) = Len(before) + Len(scanned)
       /\ \A rid \in 1 .. Len(before) :
            /\ exec.table[rid].tuple = before[rid].tuple
            /\ exec.table[rid].meta.is_deleted
                 = (before[rid].meta.is_deleted \/ \E k \in DOMAIN scanned : scanned[k] = rid)
       /\ \A k \in DOMAIN scanned :
            exec.table[Len(before) + k]
              = [meta |-> TupleMeta(0, FALSE),
                 tuple |-> [i \in DOMAIN exec.plan.target_expressions_ |->
                              Evaluate(exec.plan.target_expressions_[i],
                                       before[scanned[k]].tuple)]]

\* An update has rewritten two rows into rows that pass its own scan's
\* filter again.
C29_Witness ==
  /\ exHist.last.op = "next" /\ exHist.last.ok
  /\ exHist.last.count >= 2
  /\ exec.plan.filter_predicate_ # NoFilter
  /\ Evaluate(exec.plan.filter_predicate_, exec.table[Len(exec.table)].tuple)
  /\ exec.indexes # <<>>

(***************************************************************************)
(* TopNExecutor over a child that yields child_rows. A plan's state x is   *)
(* [child_rows, plan, tuples_, it_, initialized]; it_ is the position in   *)
(* tuples_ the reverse iterator stands on, 0 for rend().                   *)
(***************************************************************************)
MaxN == 2
MaxTopNCalls == 4

RECURSIVE Compare(_, _, _)
\* A variant that orders every key ascending.
CompareAscending(order_bys, tpl1, tpl2) ==
  IF order_bys = <<>> THEN TRUE
  ELSE
    LET left_value == Evaluate(Head(order_bys)[2], tpl1)
        right_value == Evaluate(Head(order_bys)[2], tpl2)
    IN IF left_value < right_value THEN TRUE
       ELSE IF left_value > right_value THEN FALSE
       ELSE Compare(Tail(order_bys), tpl1, tpl2)

\* The lambda compare of TopNExecutor::Init over plan_->GetOrderBy(), a
\* sequence of <<type, expr>>: the first key on which the tuples differ
\* decides; tuples that agree on every key compare true.
Compare(order_bys, tpl1, tpl2) ==
  IF order_bys = <<>> THEN TRUE
  ELSE
    LET type == Head(order_bys)[1]
        left_value == Evaluate(Head(order_bys)[2], tpl1)
        right_value == Evaluate(Head(order_bys)[2], tpl2)
    IN IF left_value < right_value THEN type # "DESC"
       ELSE IF left_value > right_value THEN type = "DESC"
       ELSE Compare(Tail(order_bys), tpl1, tpl2)

\* std::priority_queue under compare, as the bag of its elements. top() is
\* an element that no other element is strictly above; which of several
\* such elements the heap holds at its root is the library's choice.
PQTops(pq, order_bys) ==
  {m \in BagToSet(pq) :
     \A e \in BagToSet(pq) : ~(Compare(order_bys, m, e) /\ ~Compare(order_bys, e, m))}

PQPush(pq, tuple) == pq (+) SetToBag({tuple})

PQPop(pq, top) == pq (-) SetToBag({top})

\* The loop over the child: every queue the loop can end with after the
\* rows from position i on, starting from the queues pqs.
RECURSIVE TopNFill(_, _, _, _)
TopNFill(child_rows, i, pqs, plan) ==
  IF i > Len(child_rows) THEN pqs
  ELSE TopNFill(child_rows, i + 1,
                UNION {LET pushed == PQPush(pq, child_rows[i])
                       IN IF BagCardinality(pushed) > plan.n
                          THEN {PQPop(pushed, top) : top \in PQTops(pushed, plan.order_bys)}
                          ELSE {pushed} : pq \in pqs},
                plan)

\* while (!pq.empty()) { tuples_.emplace_back(pq.top()); pq.pop(); }: every
\* tuples_ the loop can build.
RECURSIVE TopNDrain(_, _)
TopNDrain(pq, order_bys) ==
  IF pq = EmptyBag THEN {<<>>}
  ELSE UNION {{<<top>> \o rest : rest \in TopNDrain(PQPop(pq, top), order_bys)} :
                top \in PQTops(pq, order_bys)}

\* TopNExecutor::Init: the states Init can leave the executor in.
TopNInit(x) ==
  {[x EXCEPT !.tuples_ = tuples, !.it_ = Len(tuples), !.initialized = TRUE] :
     tuples \in UNION {TopNDrain(pq, x.plan.order_bys) :
                         pq \in TopNFill(x.child_rows, 1, {EmptyBag}, x.plan)}}

\* TopNExecutor::Next: [ok, x, tuple]
TopNNext(x) ==
  IF x.it_ # 0
  THEN [ok |-> TRUE, x |-> [x EXCEPT !.it_ = @ - 1], tuple |-> x.tuples_[x.it_]]
  ELSE [ok |-> FALSE, x |-> x, tuple |-> <<>>]

TNOrderBys ==
  {<<<<"ASC", ColumnValue(1)>>>>, <<<<"DESC", ColumnValue(1)>>>>,
   <<<<"DEFAULT", ColumnValue(2)>>>>,
   <<<<"ASC", ColumnValue(1)>>, <<"DESC", ColumnValue(2)>>>>,
   <<<<"DESC", ColumnValue(2)>>, <<"ASC", ColumnValue(1)>>>>}

TNInit0 ==
  /\ \E child_rows \in SeqsUpTo({<<a, b>> : a \in RowValues, b \in RowValues}, MaxRows),
        n \in 0 .. MaxN, order_bys \in TNOrderBys :
       exec = [child_rows |-> child_rows,
               plan |-> [n |-> n, order_bys |-> order_bys],
               tuples_ |-> <<>>, it_ |-> 0, initialized |-> FALSE]
  /\ exHist = [calls |-> 0, emitted |-> <<>>, exhausted |-> FALSE]

TNInit ==
  /\ exHist.calls < MaxTopNCalls
  /\ exec' \in TopNInit(exec)
  /\ exHist' = [calls |-> exHist.calls + 1, emitted |-> <<>>, exhausted |-> FALSE]
  /\ UNCHANGED <<htVars, bpVars, trVars, tsVars, pgVars, dsVars, lruVars>>

TNNext ==
  /\ exHist.calls < MaxTopNCalls
  /\ exec.initialized
  /\ LET r == TopNNext(exec) IN
     /\ exec' = r.x
     /\ exHist' = [calls |-> exHist.calls + 1,
                   emitted |-> IF r.ok THEN Append(exHist.emitted, r.tuple) ELSE exHist.emitted,
                   exhausted |-> ~r.ok]
  /\ UNCHANGED <<htVars, bpVars, trVars, tsVars, pgVars, dsVars, lruVars>>

InitTN == TNInit0 /\ HTIdle /\ BPIdle /\ TRIdle /\ TSIdle /\ PGIdle /\ DSIdle /\ LRUIdle

NextTN == TNInit \/ TNNext

SpecTN == InitTN /\ [][NextTN]_vars

(***************************************************************************)
(* Claims about TopN                                                       *)
(***************************************************************************)
\* Row a comes strictly before row b in the order the plan asks for.
RECURSIVE OrderedBefore(_, _, _)
OrderedBefore(order_bys, a, b) ==
  /\ order_bys # <<>>
  /\ LET va == Evaluate(Head(order_bys)[2], a)
         vb == Evaluate(Head(order_bys)[2], b)
     IN \/ (Head(order_bys)[1] = "DESC" /\ va > vb)
        \/ (Head(order_bys)[1] # "DESC" /\ va < vb)
        \/ (va = vb /\ OrderedBefore(Tail(order_bys), a, b))

Occurrences(rows, row) == Cardinality({i \in DOMAIN rows : rows[i] = row})

\* C30: once Next has returned false, the rows emitted since Init are
\* min(N, number of child rows) many, they are rows of the child (each no
\* more often than the child yields it), they come in the plan's order, and
\* no row left out comes before an emitted row in that order.
C30_TopNEmitsFirstNSorted ==
  exHist.exhausted =>
    LET emitted == exHist.emitted
        order_bys == exec.plan.order_bys
        rows == exec.child_rows
    IN /\ Len(emitted) = IF exec.plan.n < Len(rows) THEN exec.plan.n ELSE Len(rows)
       /\ \A i \in DOMAIN emitted : Occurrences(emitted, emitted[i]) <= Occurrences(rows, emitted[i])
       /\ \A i, j \in DOMAIN emitted : i < j => ~OrderedBefore(order_bys, emitted[j], emitted[i])
       /\ \A k \in DOMAIN rows :
            Occurrences(emitted, rows[k]) < Occurrences(rows, rows[k])
              => \A i \in DOMAIN emitted : ~OrderedBefore(order_bys, rows[k], emitted[i])

\* A TopN with a descending key has emitted two differently ranked rows and
\* left out a row of the child.
C30_Witness ==
  /\ exHist.exhausted
  /\ Len(exHist.emitted) = 2
  /\ Len(exec.child_rows) > 2
  /\ Len(exec.plan.order_bys) = 2
  /\ OrderedBefore(exec.plan.order_bys, exHist.emitted[1], exHist.emitted[2])
  /\ exHist.emitted[1][1] = exHist.emitted[2][1]

(***************************************************************************)
(* AggregationExecutor and its SimpleAggregationHashTable. A value is      *)
(* [is_null, val]; a plan's state x is [child_rows, plan, ht_, aht_left,   *)
(* copy_with_empty_, initialized]. ht_ maps an aggregate key (the group-by *)
(* values) to its aggregate values; aht_left holds the keys aht_iterator_  *)
(* has not passed, empty when the iterator equals End().                   *)
(***************************************************************************)
MaxAggCalls == 8

IntegerValue(v) == [is_null |-> FALSE, val |-> v]
NullValue == [is_null |-> TRUE, val |-> 0]

\* Value::Add on integers; NULL if an operand is NULL.
ValueAdd(a, b) == IF a.is_null \/ b.is_null THEN NullValue ELSE IntegerValue(a.val + b.val)

\* A variant in which every aggregate starts at NULL.
GenerateInitialAllNull(agg_types) == [i \in DOMAIN agg_types |-> NullValue]

\* SimpleAggregationHashTable::GenerateInitialAggregateValue
GenerateInitialAggregateValue(agg_types) ==
  [i \in DOMAIN agg_types |->
     IF agg_types[i] = "CountStarAggregate" THEN IntegerValue(0) ELSE NullValue]

\* SimpleAggregationHashTable::CombineAggregateValues: the new *result
CombineAggregateValues(result, input, agg_types) ==
  [i \in DOMAIN agg_types |->
     LET old_val == result[i]
         new_val == input[i]
     IN CASE agg_types[i] = "CountStarAggregate" ->
               ValueAdd(IF old_val.is_null THEN IntegerValue(0) ELSE old_val, IntegerValue(1))
          [] agg_types[i] = "CountAggregate" ->
               IF new_val.is_null THEN old_val
               ELSE ValueAdd(IF old_val.is_null THEN IntegerValue(0) ELSE old_val, IntegerValue(1))
          [] agg_types[i] = "SumAggregate" ->
               IF new_val.is_null THEN old_val
               ELSE IF old_val.is_null THEN new_val ELSE ValueAdd(old_val, new_val)
          [] agg_types[i] = "MinAggregate" ->
               IF new_val.is_null THEN old_val
               ELSE IF old_val.is_null THEN new_val
               ELSE IF new_val.val < old_val.val THEN new_val ELSE old_val
          [] OTHER ->
               IF new_val.is_null THEN old_val
               ELSE IF old_val.is_null THEN new_val
               ELSE IF new_val.val > old_val.val THEN new_val ELSE old_val]

\* SimpleAggregationHashTable::InsertCombine: the new ht_
InsertCombine(ht, agg_key, agg_val, agg_types) ==
  LET present == IF agg_key \in DOMAIN ht THEN ht
                 ELSE ht @@ (agg_key :> GenerateInitialAggregateValue(agg_types))
  IN [present EXCEPT ![agg_key] = CombineAggregateValues(@, agg_val, agg_types)]

MakeAggregateKey(plan, tuple) == [i \in DOMAIN plan.group_bys |-> Evaluate(plan.group_bys[i], tuple)]

MakeAggregateValue(plan, tuple) == [i \in DOMAIN plan.aggregates |-> Evaluate(plan.aggregates[i], tuple)]

\* while (child_executor_->Next(...)) aht_->InsertCombine(...): the table
\* after the child's rows from position i on.
RECURSIVE AggDrainChild(_, _, _, _)
AggDrainChild(ht, child_rows, i, plan) ==
  IF i > Len(child_rows) THEN ht
  ELSE AggDrainChild(InsertCombine(ht, MakeAggregateKey(plan, child_rows[i]),
                                   MakeAggregateValue(plan, child_rows[i]), plan.agg_types),
                     child_rows, i + 1, plan)

\* AggregationExecutor::Init: the child's rows are combined into the table
\* as Init finds it, and the iterator is set to Begin().
AggInit(x) ==
  LET ht == AggDrainChild(x.ht_, x.child_rows, 1, x.plan)
  IN [x EXCEPT !.ht_ = ht, !.aht_left = DOMAIN ht,
               !.copy_with_empty_ = FALSE, !.initialized = TRUE]

\* The entries aht_iterator_ can stand on: the order in which an
\* unordered_map yields its entries is the library's.
AggIteratorAt(x) == IF x.aht_left = {} THEN {<<"end">>} ELSE x.aht_left

\* AggregationExecutor::Next with the iterator on the entry of agg_key:
\* [ok, x, tuple]
AggNext(x, agg_key) ==
  IF DOMAIN x.ht_ # {}
  THEN IF x.aht_left = {} THEN [ok |-> FALSE, x |-> x, tuple |-> <<>>]
       ELSE [ok |-> TRUE, x |-> [x EXCEPT !.aht_left = @ \ {agg_key}],
             tuple |-> agg_key \o x.ht_[agg_key]]
  ELSE IF x.copy_with_empty_ THEN [ok |-> FALSE, x |-> x, tuple |-> <<>>]
  ELSE IF x.plan.group_bys = <<>>
       THEN [ok |-> TRUE, x |-> [x EXCEPT !.copy_with_empty_ = TRUE],
             tuple |-> GenerateInitialAggregateValue(x.plan.agg_types)]
       ELSE [ok |-> FALSE, x |-> [x EXCEPT !.copy_with_empty_ = TRUE], tuple |-> <<>>]

(***************************************************************************)
(* Aggregation as a state machine                                          *)
(***************************************************************************)
AGChildRows ==
  SeqsUpTo({<<IntegerValue(g), n>> :
              g \in RowValues, n \in {NullValue} \cup {IntegerValue(v) : v \in RowValues}}, MaxRows)

AGAggTypes ==
  {<<"CountStarAggregate", "CountAggregate">>, <<"SumAggregate", "MinAggregate", "MaxAggregate">>}

\* The executor is constructed with an empty table; the engine calls Init
\* before Next. exHist.first holds the rows of the first drain, once done.
AGInit0 ==
  /\ \E child_rows \in AGChildRows, grouped \in BOOLEAN, agg_types \in AGAggTypes :
       exec = [child_rows |-> child_rows,
               plan |-> [group_bys |-> IF grouped THEN <<ColumnValue(1)>> ELSE <<>>,
                         aggregates |-> [i \in DOMAIN agg_types |-> ColumnValue(2)],
                         agg_types |-> agg_types],
               ht_ |-> <<>>, aht_left |-> {},
               copy_with_empty_ |-> FALSE, initialized |-> FALSE]
  /\ exHist = [calls |-> 0, inits |-> 0, emitted |-> <<>>, exhausted |-> FALSE, first |-> <<>>]

AGInit ==
  /\ exHist.calls < MaxAggCalls
  /\ exec' = AggInit(exec)
  /\ exHist' = [exHist EXCEPT !.calls = @ + 1, !.inits = @ + 1,
                              !.emitted = <<>>, !.exhausted = FALSE]
  /\ UNCHANGED <<htVars, bpVars, trVars, tsVars, pgVars, dsVars, lruVars>>

AGNext ==
  /\ exHist.calls < MaxAggCalls
  /\ exec.initialized
  /\ \E agg_key \in AggIteratorAt(exec) :
       LET r == AggNext(exec, agg_key) IN
       /\ exec' = r.x
       /\ exHist' = [exHist EXCEPT
                       !.calls = @ + 1,
                       !.emitted = IF r.ok THEN Append(@, r.tuple) ELSE @,
                       !.exhausted = ~r.ok,
                       !.first = IF ~r.ok /\ exHist.inits = 1 THEN <<exHist.emitted>> ELSE @]
  /\ UNCHANGED <<htVars, bpVars, trVars, tsVars, pgVars, dsVars, lruVars>>

InitAG == AGInit0 /\ HTIdle /\ BPIdle /\ TRIdle /\ TSIdle /\ PGIdle /\ DSIdle /\ LRUIdle

NextAG == AGInit \/ AGNext

SpecAG == InitAG /\ [][NextAG]_vars

(***************************************************************************)
(* Claims about Aggregation                                                *)
(***************************************************************************)
\* C31: over an empty input, an Aggregation without group-by has emitted,
\* when Next reports the end, exactly one row: 0 for COUNT(*) and NULL for
\* every other aggregate; with group-by it has emitted no row.
C31_EmptyInputAggregation ==
  (exHist.exhausted /\ exec.child_rows = <<>>) =>
    exHist.emitted =
      IF exec.plan.group_bys = <<>>
      THEN <<[i \in DOMAIN exec.plan.agg_types |->
                IF exec.plan.agg_types[i] = "CountStarAggregate"
                THEN [is_null |-> FALSE, val |-> 0]
                ELSE [is_null |-> TRUE, val |-> 0]]>>
      ELSE <<>>

\* An ungrouped COUNT(*) over no rows has emitted its one row and ended.
C31_Witness ==
  /\ exHist.exhausted /\ exec.child_rows = <<>>
  /\ exec.plan.group_bys = <<>>
  /\ Len(exHist.emitted) = 1
  /\ exec.plan.agg_types[1] = "CountStarAggregate"
  /\ exHist.emitted[1][1].val = 0 /\ ~exHist.emitted[1][1].is_null

\* C39: a drain after a repeated Init yields the rows of the first drain,
\* each as often.
C39_ReinitYieldsSameRows ==
  (exHist.exhausted /\ exHist.inits >= 2 /\ exHist.first # <<>>) =>
    /\ Len(exHist.emitted) = Len(exHist.first[1])
    /\ \A i \in DOMAIN exHist.emitted :
         Occurrences(exHist.emitted, exHist.emitted[i])
           = Occurrences(exHist.first[1], exHist.emitted[i])

(***************************************************************************)
(* Optimizer rules over plan trees. A plan node is [type, children, limit, *)
(* order_bys, predicate, left_keys, right_keys]; a join predicate is a     *)
(* tree of logic, comparison, column and constant expressions.             *)
(***************************************************************************)
MaxPlanDepth == 4
MaxOptPasses == 2

NoPredicate == [kind |-> "none"]

PlanNode(type, children) ==
  [type |-> type, children |-> children, limit |-> 0, order_bys |-> <<>>,
   predicate |-> NoPredicate, left_keys |-> <<>>, right_keys |-> <<>>]

SeqScanPlanNode == PlanNode("SeqScan", <<>>)
LimitPlanNode(limit, child) == [PlanNode("Limit", <<child>>) EXCEPT !.limit = limit]
SortPlanNode(order_bys, child) == [PlanNode("Sort", <<child>>) EXCEPT !.order_bys = order_bys]
NestedLoopJoinPlanNode(left, right, predicate) ==
  [PlanNode("NestedLoopJoin", <<left, right>>) EXCEPT !.predicate = predicate]

TopNPlanNode(child, order_bys, n) ==
  [PlanNode("TopN", <<child>>) EXCEPT !.order_bys = order_bys, !.limit = n]

HashJoinPlanNode(left, right, left_keys, right_keys) ==
  [PlanNode("HashJoin", <<left, right>>) EXCEPT !.left_keys = left_keys, !.right_keys = right_keys]

\* AbstractPlanNode::CloneWithChildren
CloneWithChildren(plan, children) == [plan EXCEPT !.children = children]

JoinColumn(tuple_idx, col) == [kind |-> "column", tuple_idx |-> tuple_idx, col |-> col]
JoinConstant(val) == [kind |-> "constant", val |-> val]
Comparison(comp_type, l, r) == [kind |-> "comparison", comp_type |-> comp_type, children |-> <<l, r>>]
Logic(logic_type, l, r) == [kind |-> "logic", logic_type |-> logic_type, children |-> <<l, r>>]

\* Optimizer::OptimizeSortLimitAsTopN: the TopNPlanNode is made over
\* optimized_plan->children_[0].
RECURSIVE OptimizeSortLimitAsTopN(_)
OptimizeSortLimitAsTopN(plan) ==
  LET optimized_children == [i \in DOMAIN plan.children |-> OptimizeSortLimitAsTopN(plan.children[i])]
      optimized_plan == CloneWithChildren(plan, optimized_children)
  IN IF optimized_plan.type = "Limit" /\ optimized_plan.children[1].type = "Sort"
     THEN TopNPlanNode(optimized_plan.children[1], optimized_plan.children[1].order_bys,
                       optimized_plan.limit)
     ELSE optimized_plan

\* ParseAndExpression: [ok, left, right], the two key vectors after the
\* predicate; ok is false when the dynamic_cast of a comparison's first
\* operand to ColumnValueExpression& throws std::bad_cast.
RECURSIVE ParseAndExpression(_, _, _)
ParseAndExpression(predicate, left_key_expressions, right_key_expressions) ==
  IF predicate.kind = "logic"
  THEN LET first == ParseAndExpression(predicate.children[1], left_key_expressions,
                                       right_key_expressions)
       IN IF ~first.ok THEN first
          ELSE ParseAndExpression(predicate.children[2], first.left, first.right)
  ELSE IF predicate.kind = "comparison"
  THEN IF predicate.children[1].kind # "column"
       THEN [ok |-> FALSE, left |-> left_key_expressions, right |-> right_key_expressions]
       ELSE IF predicate.children[1].tuple_idx = 0
       THEN [ok |-> TRUE, left |-> Append(left_key_expressions, predicate.children[1]),
             right |-> Append(right_key_expressions, predicate.children[2])]
       ELSE [ok |-> TRUE, left |-> Append(left_key_expressions, predicate.children[2]),
             right |-> Append(right_key_expressions, predicate.children[1])]
  ELSE [ok |-> TRUE, left |-> left_key_expressions, right |-> right_key_expressions]

\* Optimizer::OptimizeNLJAsHashJoin: [ok, plan]; ok is false when the
\* exception of ParseAndExpression leaves the call.
RECURSIVE OptimizeNLJAsHashJoin(_)
OptimizeNLJAsHashJoin(plan) ==
  LET optimized_children == [i \in DOMAIN plan.children |-> OptimizeNLJAsHashJoin(plan.children[i])]
  IN IF \E i \in DOMAIN plan.children : ~optimized_children[i].ok
     THEN [ok |-> FALSE, plan |-> plan]
     ELSE
       LET optimized_plan ==
             CloneWithChildren(plan, [i \in DOMAIN plan.children |-> optimized_children[i].plan])
       IN IF optimized_plan.type = "NestedLoopJoin"
          THEN LET keys == ParseAndExpression(optimized_plan.predicate, <<>>, <<>>)
               IN IF ~keys.ok THEN [ok |-> FALSE, plan |-> plan]
                  ELSE [ok |-> TRUE,
                        plan |-> HashJoinPlanNode(optimized_plan.children[1],
                                                  optimized_plan.children[2],
                                                  keys.left, keys.right)]
          ELSE [ok |-> TRUE, plan |-> optimized_plan]

(***************************************************************************)
(* The optimizer as a state machine: rules applied to a plan in turn       *)
(***************************************************************************)
OPPredicates ==
  LET eq == Comparison("Equal", JoinColumn(0, 1), JoinColumn(1, 1))
      eq_swapped == Comparison("Equal", JoinColumn(1, 2), JoinColumn(0, 2))
      lt == Comparison("LessThan", JoinColumn(0, 1), JoinColumn(1, 1))
  IN {eq, eq_swapped, lt,
      Logic("And", eq, eq_swapped), Logic("Or", eq, eq_swapped), Logic("And", eq, lt),
      Comparison("Equal", JoinConstant(1), JoinColumn(1, 1)),
      Comparison("Equal", JoinColumn(0, 1), JoinConstant(1)),
      JoinConstant(1)}

\* Plans of at most d levels; a join has a scan on its right.
RECURSIVE OPPlans(_)
OPPlans(d) ==
  IF d = 1 THEN {SeqScanPlanNode}
  ELSE LET below == OPPlans(d - 1)
       IN {SeqScanPlanNode}
            \cup {LimitPlanNode(n, child) : n \in {1, 2}, child \in below}
            \cup {SortPlanNode(<<<<"ASC", ColumnValue(1)>>>>, child) : child \in below}
            \cup {NestedLoopJoinPlanNode(child, SeqScanPlanNode, predicate) :
                    child \in below, predicate \in OPPredicates}

OPInit0 ==
  /\ \E plan \in OPPlans(MaxPlanDepth) : exec = [plan |-> plan, thrown |-> FALSE]
  /\ exHist = [calls |-> 0, last |-> [op |-> "none"]]

OPSortLimitAsTopN ==
  /\ exHist.calls < MaxOptPasses
  /\ ~exec.thrown
  /\ exec' = [exec EXCEPT !.plan = OptimizeSortLimitAsTopN(exec.plan)]
  /\ exHist' = [calls |-> exHist.calls + 1,
                last |-> [op |-> "SortLimitAsTopN", before |-> exec.plan]]
  /\ UNCHANGED <<htVars, bpVars, trVars, tsVars, pgVars, dsVars, lruVars>>

OPNLJAsHashJoin ==
  /\ exHist.calls < MaxOptPasses
  /\ ~exec.thrown
  /\ LET r == OptimizeNLJAsHashJoin(exec.plan) IN
     exec' = [plan |-> r.plan, thrown |-> ~r.ok]
  /\ exHist' = [calls |-> exHist.calls + 1,
                last |-> [op |-> "NLJAsHashJoin", before |-> exec.plan]]
  /\ UNCHANGED <<htVars, bpVars, trVars, tsVars, pgVars, dsVars, lruVars>>

InitOP == OPInit0 /\ HTIdle /\ BPIdle /\ TRIdle /\ TSIdle /\ PGIdle /\ DSIdle /\ LRUIdle

NextOP == OPSortLimitAsTopN \/ OPNLJAsHashJoin

SpecOP == InitOP /\ [][NextOP]_vars

(***************************************************************************)
(* Claims about the optimizer rules                                        *)
(***************************************************************************)
\* after is before with every Limit over a Sort replaced by a TopN over
\* the Sort's child, and nothing else changed.
RECURSIVE TopNRewritten(_, _)
TopNRewritten(before, after) ==
  IF before.type = "Limit" /\ before.children[1].type = "Sort"
  THEN /\ after.type = "TopN"
       /\ after.limit = before.limit
       /\ after.order_bys = before.children[1].order_bys
       /\ Len(after.children) = 1
       /\ TopNRewritten(before.children[1].children[1], after.children[1])
  ELSE /\ after.type = before.type
       /\ Len(after.children) = Len(before.children)
       /\ \A i \in DOMAIN before.children : TopNRewritten(before.children[i], after.children[i])

\* C32: after the Sort+Limit rule every Limit(N) that had a Sort as its
\* child is a TopN with that N and the Sort's order-by whose child is the
\* (rewritten) child of the Sort; the Sort is gone.
C32_SortLimitBecomesTopN ==
  exHist.last.op = "SortLimitAsTopN" => TopNRewritten(exHist.last.before, exec.plan)

\* The predicate is an AND tree of = comparisons between columns.
RECURSIVE IsEquiConjunction(_)
IsEquiConjunction(predicate) ==
  \/ /\ predicate.kind = "comparison"
     /\ predicate.comp_type = "Equal"
     /\ predicate.children[1].kind = "column"
     /\ predicate.children[2].kind = "column"
  \/ /\ predicate.kind = "logic"
     /\ predicate.logic_type = "And"
     /\ IsEquiConjunction(predicate.children[1])
     /\ IsEquiConjunction(predicate.children[2])

\* after has a HashJoin exactly where before has a nested-loop join over
\* an equi-conjunction, and the node types of before everywhere else.
RECURSIVE JoinsRewritten(_, _)
JoinsRewritten(before, after) ==
  /\ after.type = IF before.type = "NestedLoopJoin" /\ IsEquiConjunction(before.predicate)
                  THEN "HashJoin" ELSE before.type
  /\ Len(after.children) = Len(before.children)
  /\ \A i \in DOMAIN before.children : JoinsRewritten(before.children[i], after.children[i])

\* C33: the NLJ rule ends normally, has made a HashJoin of every
\* nested-loop join whose predicate is a conjunction of column equalities
\* and has left every other nested-loop join a nested-loop join.
C33_OnlyEquiJoinsBecomeHashJoins ==
  exHist.last.op = "NLJAsHashJoin" =>
    /\ ~exec.thrown
    /\ JoinsRewritten(exHist.last.before, exec.plan)

\* C36: no call of the replacer locks latch_ while it holds it: the
\* RecordAccess of a frame's first access does not end up in Evict's
\* lock_guard when curr_size_ equals max_size_.
C36_RecordAccessNeverRelocks == lru.outcome # "relock"

====
